---- MODULE Spec2Model ----
(***************************************************************************)
(* Project Tracker: the filesystem-backed record store (DataService) and   *)
(* the report aggregation (ReportsScreen), as state machines over the      *)
(* shared data folder.  Several processes (one per team member's machine)  *)
(* read and write the same folder; a whole-file write lands in one step.   *)
(***************************************************************************)
EXTENDS Integers, Sequences, FiniteSets, TLC

(***************************************************************************)
(* Bounds of the model.                                                    *)
(***************************************************************************)
MaxDate == 2        \* calendar days are 1..MaxDate
MaxLogs == 3        \* log actions in one run
MaxSaves == 4       \* saves of shared documents in one run
MaxEnv == 2         \* changes made to the folder from outside in one run
MaxFiles == 3       \* files in the time folder of a report
MaxCalls == 4       \* steps of one run where a specification counts them

LogDates == {1, 2}   \* the work dates offered by the log form in this model
Hours == {2, 3}      \* the hours offered by the log form in this model

(***************************************************************************)
(* Strings that are taken apart by the code (file names, user ids) are     *)
(* sequences of tokens; a ten-character date and ".json" are one token.    *)
(***************************************************************************)
Alice == <<"a">>
Bob == <<"b">>
Users == {Alice, Bob}
NoUser == <<>>               \* None, and the empty string: both falsy
Procs == {"p1", "p2"}
ProjectIds == {"P1", "P2"}
QueryIds == ProjectIds \cup {"PX"}
WorkTypes == {"Planning"}

\* getpass.getuser(): the OS account of the machine the process runs on
get_os_username(p) == IF p = "p1" THEN Alice ELSE Bob

DateNames == <<"2024-01-01", "2024-01-02", "2024-01-03", "2024-01-04",
               "2024-01-05", "2024-01-06", "2024-01-07", "2024-01-08",
               "2024-01-09", "2024-01-10">>

\* date.strftime("%Y-%m-%d")
strftime(d) == DateNames[d]

\* date.fromisoformat / datetime.strptime(s, "%Y-%m-%d").date(); 0: ValueError
fromisoformat(s) ==
    IF \E d \in 1..Len(DateNames) : DateNames[d] = s
    THEN CHOOSE d \in 1..Len(DateNames) : DateNames[d] = s
    ELSE 0

(***************************************************************************)
(* The state.                                                              *)
(***************************************************************************)
VARIABLES
    dirs,              \* the directories that exist: "root", "projects", "time"
    teamFile,          \* content of <root>/team_data.json
    projDir,           \* <root>/projects: file name -> content
    timeDir,           \* <root>/time: file name -> content
    starDir,           \* <root>/<user>_starred.json: file name -> content
    today,             \* date.today()
    now,               \* datetime.now(), a logical clock
    _data_folder,      \* per process: TRUE when a data folder is configured
    _current_user_id,  \* per process: the roster id chosen, NoUser when none
    _team_data,        \* per process: cached TeamData
    _projects,         \* per process: cache id -> Project
    _today_entries,    \* per process: cached DailyTimeFile
    pc,                \* per process: position in the operation in flight
    loc,               \* per process: locals of the operation in flight
    ret,               \* per process: outcome of the last operation
    held,              \* per process: the document open in an editor
    nextId,            \* supply of fresh entry ids (uuid4)
    logged,            \* history: the entries whose write has landed
    hoursLogged,       \* history: hours written per project
    landed,            \* history: the writes of shared documents, in order
    envSteps,          \* history: number of outside changes so far
    calls              \* history: number of steps counted so far

fsVars == <<dirs, teamFile, projDir, timeDir, starDir>>
clockVars == <<today, now>>
cacheVars == <<_data_folder, _current_user_id, _team_data, _projects,
               _today_entries>>
ctlVars == <<pc, loc, ret, held>>
histVars == <<nextId, logged, hoursLogged, landed, envSteps>>
vars == <<fsVars, clockVars, cacheVars, ctlVars, histVars, calls>>

\* a specification that bounds the length of its runs starts calls at 0 and
\* every step counts; one that does not starts it above MaxCalls
Uncounted == calls > MaxCalls
Counted ==
    IF Uncounted THEN UNCHANGED calls
    ELSE calls < MaxCalls /\ calls' = calls + 1

(***************************************************************************)
(* File contents.  A file holds a JSON document, or bytes that are not     *)
(* JSON (a corrupted or partly written file).                              *)
(***************************************************************************)
Absent == [kind |-> "absent"]
Corrupt == [kind |-> "corrupt"]
None == [kind |-> "None"]
Idle == [op |-> "none"]

\* the outcome of a call: the exception raised ("no": none), whether a data
\* folder was configured and the root existed when the call began, and whether
\* the result is the empty or absent one
Outcome(op, raised, configured, root, empty) ==
    [op |-> op, raised |-> raised, configured |-> configured,
     root |-> root, empty |-> empty]

\* write a whole file: open(path, 'w') ... json.dump
WriteFile(dir, name, content) == (name :> content) @@ dir

\* Path.glob("*.json")
GlobJson(dir) == {n \in DOMAIN dir : Len(n) >= 1 /\ n[Len(n)] = ".json"}

\* data.get('entries', [])
Entries(data) == IF "entries" \in DOMAIN data THEN data.entries ELSE <<>>

\* except (classes): FileNotFoundError is a subclass of IOError (OSError)
Caught(exc, classes) ==
    exc \in classes \/ (exc = "FileNotFoundError" /\ "IOError" \in classes)

\* a file whose bytes are not text in the encoding of open(file_path, 'r'):
\* f.read() raises UnicodeDecodeError, a ValueError that is neither a
\* JSONDecodeError nor an IOError
Undecodable == [kind |-> "bytes"]

\* the exception of open(file_path, 'r') and json.load(f); "no": none
OpenError(content) ==
    IF content = Absent THEN "FileNotFoundError"
    ELSE IF content = Undecodable THEN "UnicodeDecodeError"
    ELSE IF content.kind # "json" THEN "JSONDecodeError"
    ELSE "no"

(***************************************************************************)
(* models.py                                                               *)
(***************************************************************************)
\* asdict(TimeEntry.create_simple(...)); id stands for the uuid4
create_simple(id, project_id, work_type, hours, entry_date) ==
    [id |-> id, project_id |-> project_id, work_type |-> work_type,
     hours |-> hours, date |-> entry_date]

TimeEntryRequired == {"id", "project_id", "work_type", "hours", "date"}
TimeEntryFields == TimeEntryRequired \cup {"notes", "created_at"}

\* TimeEntry(**e) raises TypeError on an unknown or a missing required key
TimeEntryAccepts(e) ==
    /\ DOMAIN e \subseteq TimeEntryFields
    /\ TimeEntryRequired \subseteq DOMAIN e

DailyTimeFileOfFirstDay(user_id, date, entries) ==
    [kind |-> "json", user_id |-> user_id, date |-> DateNames[1],
     entries |-> entries]

DailyTimeFile(user_id, date, entries) ==
    [kind |-> "json", user_id |-> user_id, date |-> date, entries |-> entries]

(***************************************************************************)
(* data_service.py: identity                                               *)
(***************************************************************************)
\* self._current_user_id or self.get_os_username()
current_user_id(p) ==
    IF _current_user_id[p] # NoUser THEN _current_user_id[p]
    ELSE get_os_username(p)

(***************************************************************************)
(* data_service.py: time entries                                           *)
(***************************************************************************)
_get_time_file_pathShared(user_id, entry_date) ==
    <<"_", strftime(entry_date), ".json">>

\* <root>/time/<user_id>_<yyyy-mm-dd>.json
_get_time_file_path(user_id, entry_date) ==
    user_id \o <<"_", strftime(entry_date), ".json">>

\* load_today_entries, as a function of the folder: the outcome and the cache
\* user_id is the value of self.current_user_id when the call is made
load_today_entries_for(p, user_id, tdir, day) ==
    LET path == _get_time_file_path(user_id, day) IN
    IF ~_data_folder[p] \/ user_id = NoUser
    THEN [raised |-> "no", cache |-> _today_entries[p], empty |-> TRUE]
    ELSE IF path \notin DOMAIN tdir
    THEN [raised |-> "no", empty |-> TRUE,
          cache |-> DailyTimeFile(user_id, strftime(day), <<>>)]
    ELSE IF tdir[path].kind # "json"
    THEN [raised |-> "JSONDecodeError", cache |-> _today_entries[p],
          empty |-> TRUE]
    ELSE IF \E i \in 1..Len(Entries(tdir[path])) :
                ~TimeEntryAccepts(Entries(tdir[path])[i])
    THEN [raised |-> "TypeError", cache |-> _today_entries[p],
          empty |-> TRUE]
    ELSE IF ~({"user_id", "date"} \subseteq DOMAIN tdir[path])
    THEN [raised |-> "KeyError", cache |-> _today_entries[p],
          empty |-> TRUE]
    ELSE [raised |-> "no", empty |-> Entries(tdir[path]) = <<>>,
          cache |-> DailyTimeFile(tdir[path].user_id, tdir[path].date,
                                  Entries(tdir[path]))]

load_today_entries_result(p, tdir, day) ==
    load_today_entries_for(p, current_user_id(p), tdir, day)

AppendEntryDedup(entries, entry) ==
    IF \E i \in 1..Len(entries) :
          /\ entries[i].project_id = entry.project_id
          /\ entries[i].work_type = entry.work_type
          /\ entries[i].hours = entry.hours
          /\ entries[i].date = entry.date
    THEN entries
    ELSE Append(entries, entry)

\* entries.append(asdict(entry))
AppendEntry(entries, entry) == Append(entries, entry)

\* save_time_entry up to the read of the existing file (lines 339-354)
SaveTimeEntryRead(p, entry) ==
    /\ pc[p] = "idle"
    /\ LET path == _get_time_file_path(current_user_id(p),
                                       fromisoformat(entry.date)) IN
       IF ~_data_folder[p] \/ current_user_id(p) = NoUser
       THEN /\ ret' = [ret EXCEPT ![p] =
                         Outcome("save_time_entry", "no", _data_folder[p],
                                 "root" \in dirs, TRUE)]
            /\ UNCHANGED <<pc, loc>>
       ELSE IF path \in DOMAIN timeDir /\ timeDir[path].kind # "json"
       THEN /\ ret' = [ret EXCEPT ![p] =
                         Outcome("save_time_entry", "JSONDecodeError",
                                 _data_folder[p], "root" \in dirs, TRUE)]
            /\ UNCHANGED <<pc, loc>>
       ELSE /\ pc' = [pc EXCEPT ![p] = "save_write"]
            /\ loc' = [loc EXCEPT ![p] =
                         [op |-> "save_time_entry", entry |-> entry,
                          file_path |-> path,
                          root |-> "root" \in dirs,
                          entries |-> IF path \in DOMAIN timeDir
                                      THEN Entries(timeDir[path])
                                      ELSE <<>>]]
            /\ UNCHANGED ret

\* save_time_entry from the append to the end (lines 356-372): mkdir of the
\* parents, the write of the whole file, then the reload of today's entries
\* when the entry is for today
SaveTimeEntryWrite(p) ==
    /\ pc[p] = "save_write"
    /\ loc[p].op = "save_time_entry"
    /\ LET entry == loc[p].entry
           data == DailyTimeFile(current_user_id(p), entry.date,
                                 AppendEntry(loc[p].entries, entry))
           tdir == WriteFile(timeDir, loc[p].file_path, data)
           reload == load_today_entries_result(p, tdir, today)
       IN /\ dirs' = dirs \cup {"root", "time"}
          /\ timeDir' = tdir
          /\ logged' = logged \cup {[user |-> current_user_id(p),
                                     entry |-> entry]}
          /\ hoursLogged' = [hoursLogged EXCEPT ![entry.project_id] =
                                @ + entry.hours]
          /\ IF fromisoformat(entry.date) = today
             THEN /\ _today_entries' = [_today_entries EXCEPT ![p] =
                                           reload.cache]
                  /\ ret' = [ret EXCEPT ![p] =
                               Outcome("save_time_entry", reload.raised,
                                       TRUE, loc[p].root, TRUE)]
             ELSE /\ UNCHANGED _today_entries
                  /\ ret' = [ret EXCEPT ![p] =
                               Outcome("save_time_entry", "no", TRUE,
                                       loc[p].root, TRUE)]
    /\ pc' = [pc EXCEPT ![p] = "idle"]
    /\ loc' = [loc EXCEPT ![p] = Idle]

\* HomeScreen._on_log_time: the form's values become one entry
LogTimeWith(p, projects, dates) ==
    /\ Counted
    /\ nextId <= MaxLogs
    /\ \E project_id \in projects, work_type \in WorkTypes,
          hours \in Hours, d \in dates :
          SaveTimeEntryRead(p, create_simple(nextId, project_id, work_type,
                                             hours, strftime(d)))
    /\ nextId' = nextId + 1
    /\ UNCHANGED <<fsVars, clockVars, cacheVars, held, logged, hoursLogged,
                   landed, envSteps>>

LogTime(p) == LogTimeWith(p, ProjectIds, LogDates)

LogTimeWrite(p) ==
    /\ Counted
    /\ SaveTimeEntryWrite(p)
    /\ UNCHANGED <<teamFile, projDir, starDir, clockVars, _data_folder,
                   _current_user_id, _team_data, _projects, held, nextId,
                   landed, envSteps>>

(***************************************************************************)
(* data_service.py: get_project_total_hours                                *)
(***************************************************************************)
EntryHours(entry) ==
    IF "hours" \in DOMAIN entry THEN entry.hours
    ELSE IF "duration_minutes" \in DOMAIN entry
         THEN entry.duration_minutes \div 60
         ELSE 0

EntryMatchesAny(entry, project_id) == TRUE

\* entry.get('project_id') == project_id
EntryMatches(entry, project_id) ==
    "project_id" \in DOMAIN entry /\ entry.project_id = project_id

RECURSIVE SumEntries(_, _)
SumEntries(entries, project_id) ==
    IF entries = <<>> THEN 0
    ELSE (IF EntryMatches(Head(entries), project_id)
          THEN EntryHours(Head(entries)) ELSE 0)
         + SumEntries(Tail(entries), project_id)

RECURSIVE SumTimeFiles(_, _, _)
SumTimeFiles(tdir, names, project_id) ==
    IF names = {} THEN 0
    ELSE LET n == CHOOSE x \in names : TRUE IN
         (IF tdir[n].kind = "json"
          THEN SumEntries(Entries(tdir[n]), project_id) ELSE 0)
         + SumTimeFiles(tdir, names \ {n}, project_id)

\* with every file readable for the length of the scan
get_project_total_hours(p, project_id) ==
    IF ~_data_folder[p] THEN 0
    ELSE IF "time" \notin dirs THEN 0
    ELSE SumTimeFiles(timeDir, GlobJson(timeDir), project_id)

(***************************************************************************)
(* models.py: Project and TeamData                                         *)
(***************************************************************************)
JsonDoc(doc) == [kind |-> "json", doc |-> doc]

\* the legacy flat fields of Project (models.py, lines 63-73)
LegacyFields ==
    {"campus", "offer", "sub_offer", "course_id", "effort_type",
     "course_type", "course_duration_minutes", "lpo", "sme", "lxo"}

ProjectFields == {"id", "name", "project_id", "status", "target_hours",
                  "modified_at", "modified_by"} \cup LegacyFields

ProjectDefaults ==
    [project_id |-> "", status |-> "Not Started", target_hours |-> 0,
     modified_at |-> 0, modified_by |-> NoUser, course_id |-> "",
     campus |-> "", offer |-> "", sub_offer |-> "", effort_type |-> "",
     course_type |-> "", course_duration_minutes |-> 0, lpo |-> "",
     sme |-> "", lxo |-> ""]

\* Project(**data) raises TypeError on an unknown key or without id and name
ProjectAccepts(data) ==
    /\ DOMAIN data \subseteq ProjectFields
    /\ {"id", "name"} \subseteq DOMAIN data

ProjectWithoutModifier(data) ==
    [data @@ ProjectDefaults EXCEPT !.modified_by = NoUser]

\* Project(**data): the fields given, the defaults for the others
Project(data) == data @@ ProjectDefaults

get_file_idInternal(project) == project.id

\* Project.get_file_id: project_id, else course_id, else id
get_file_id(project) ==
    IF project.project_id # "" THEN project.project_id
    ELSE IF project.course_id # "" THEN project.course_id
    ELSE project.id

project_file_path(project) == <<get_file_id(project), ".json">>

TeamDataFields == {"employees", "work_types"}

\* TeamData(**data) raises TypeError on an unknown key
TeamDataAccepts(data) == DOMAIN data \subseteq TeamDataFields

TeamData(data) == data @@ [employees |-> {}, work_types |-> {}]

\* the default team_data.json of _ensure_folder_structure
default_team_data == [employees |-> {}, work_types |-> WorkTypes]

TeamPath == <<"team_data.json">>

(***************************************************************************)
(* data_service.py: team data and identity                                 *)
(***************************************************************************)
is_configured(p) == _data_folder[p] /\ "root" \in dirs

load_team_data_result(p) ==
    IF ~_data_folder[p]
    THEN [raised |-> "no", cache |-> _team_data[p], empty |-> TRUE]
    ELSE IF teamFile = Absent
    THEN [raised |-> "no", cache |-> _team_data[p], empty |-> TRUE]
    ELSE IF teamFile.kind # "json"
    THEN [raised |-> "JSONDecodeError", cache |-> _team_data[p],
          empty |-> TRUE]
    ELSE IF ~TeamDataAccepts(teamFile.doc)
    THEN [raised |-> "TypeError", cache |-> _team_data[p], empty |-> TRUE]
    ELSE [raised |-> "no", cache |-> TeamData(teamFile.doc), empty |-> FALSE]

\* identify_user / set_current_user: the value of _current_user_id afterwards
identify_user_result(p, team, wanted) ==
    IF team = None THEN _current_user_id[p]
    ELSE IF wanted \in team.employees THEN wanted
    ELSE _current_user_id[p]

\* save_team_data (lines 188-197).  Its callers pass the cached TeamData
\* object after changing it in place (admin_screen.py, _save), so the cache
\* holds team_data on every path
save_team_data(p, team_data) ==
    /\ _team_data' = [_team_data EXCEPT ![p] = team_data]
    /\ IF ~_data_folder[p]
       THEN /\ ret' = [ret EXCEPT ![p] =
                         Outcome("save_team_data", "no", FALSE,
                                 "root" \in dirs, TRUE)]
            /\ UNCHANGED <<teamFile, landed>>
       ELSE IF "root" \notin dirs
       THEN /\ ret' = [ret EXCEPT ![p] =
                         Outcome("save_team_data", "FileNotFoundError", TRUE,
                                 FALSE, TRUE)]
            /\ UNCHANGED <<teamFile, landed>>
       ELSE /\ teamFile' = JsonDoc(team_data)
            /\ landed' = Append(landed, [path |-> TeamPath, by |-> p,
                                         doc |-> team_data])
            /\ ret' = [ret EXCEPT ![p] =
                         Outcome("save_team_data", "no", TRUE, TRUE, TRUE)]

(***************************************************************************)
(* data_service.py: projects                                               *)
(***************************************************************************)
\* every order in which glob may yield the names
Orders(names) ==
    {o \in [1..Cardinality(names) -> names] :
        \A i, j \in 1..Cardinality(names) : i # j => o[i] # o[j]}

LoadProjectFileDropsOthers(acc, content) ==
    IF content.kind = "json" /\ ProjectAccepts(content.doc)
    THEN [cache |-> (content.doc.id :> Project(content.doc)) @@ acc.cache,
          warnings |-> acc.warnings]
    ELSE [cache |-> <<>>, warnings |-> acc.warnings + 1]

\* one turn of the loop of load_projects (lines 218-224) on a file that opens
LoadProjectFile(acc, content) ==
    IF content.kind = "json" /\ ProjectAccepts(content.doc)
    THEN [cache |-> (content.doc.id :> Project(content.doc)) @@ acc.cache,
          warnings |-> acc.warnings]
    ELSE [cache |-> acc.cache, warnings |-> acc.warnings + 1]

RECURSIVE LoadProjectFiles(_, _, _)
LoadProjectFiles(acc, pdir, order) ==
    IF order = <<>> THEN acc
    ELSE LoadProjectFiles(LoadProjectFile(acc, pdir[Head(order)]), pdir,
                          Tail(order))

\* load_projects with every listed file readable for the length of the scan:
\* the cache afterwards, the map returned and the number of warnings printed
load_projects_result(p, order) ==
    IF ~_data_folder[p] \/ "projects" \notin dirs
    THEN [cache |-> _projects[p], warnings |-> 0, returned |-> <<>>]
    ELSE LET r == LoadProjectFiles([cache |-> <<>>, warnings |-> 0],
                                   projDir, order)
         IN [cache |-> r.cache, warnings |-> r.warnings, returned |-> r.cache]

DumpProjectKeepsFirst(pdir, path, project) ==
    IF path \in DOMAIN pdir THEN pdir
    ELSE WriteFile(pdir, path, JsonDoc(project))

DumpProjectBesideOld(pdir, path, project) ==
    IF path \in DOMAIN pdir
    THEN WriteFile(pdir, <<"copy">> \o path, JsonDoc(project))
    ELSE WriteFile(pdir, path, JsonDoc(project))

\* with open(file_path, 'w'): json.dump(asdict(project))
DumpProject(pdir, path, project) == WriteFile(pdir, path, JsonDoc(project))

\* save_project (lines 232-248) when datetime.now() gives t; the project
\* object itself is stamped
save_project_at(p, project, t) ==
    IF ~_data_folder[p]
    THEN /\ ret' = [ret EXCEPT ![p] =
                      Outcome("save_project", "no", FALSE, "root" \in dirs,
                              TRUE)]
         /\ UNCHANGED <<projDir, _projects, now, landed, held>>
    ELSE LET stamped == [project EXCEPT !.modified_at = t,
                                        !.modified_by = current_user_id(p)]
         IN /\ now' = t
            /\ held' = [held EXCEPT ![p] =
                          IF @ # None /\ @.id = project.id THEN stamped
                          ELSE @]
            /\ IF "projects" \notin dirs
               THEN /\ ret' = [ret EXCEPT ![p] =
                                 Outcome("save_project", "FileNotFoundError",
                                         TRUE, "root" \in dirs, TRUE)]
                    /\ UNCHANGED <<projDir, _projects, landed>>
               ELSE /\ projDir' = DumpProject(projDir,
                                              project_file_path(stamped),
                                              stamped)
                    /\ _projects' = [_projects EXCEPT ![p] =
                                        (stamped.id :> stamped) @@ @]
                    /\ landed' = Append(landed,
                                        [path |-> project_file_path(stamped),
                                         by |-> p, doc |-> stamped])
                    /\ ret' = [ret EXCEPT ![p] =
                                 Outcome("save_project", "no", TRUE,
                                         "root" \in dirs, TRUE)]

\* save_project when the clock has moved on since the save before
save_project(p, project) == save_project_at(p, project, now + 1)

(***************************************************************************)
(* data_service.py: starred projects                                       *)
(***************************************************************************)
_get_starred_file_pathShared(p) == <<"starred.json">>

\* <root>/<user_id>_starred.json
_get_starred_file_path(p) == current_user_id(p) \o <<"_starred.json">>

\* except (json.JSONDecodeError, IOError) of get_starred_projects (line 428)
get_starred_projects_except == {"JSONDecodeError", "IOError"}

\* the exception that get_starred_projects lets out; "no": none
get_starred_projects_raised(p) ==
    IF ~_data_folder[p] \/ current_user_id(p) = NoUser THEN "no"
    ELSE IF _get_starred_file_path(p) \notin DOMAIN starDir THEN "no"
    ELSE IF Caught(OpenError(starDir[_get_starred_file_path(p)]),
                   get_starred_projects_except)
    THEN "no"
    ELSE OpenError(starDir[_get_starred_file_path(p)])

\* get_starred_projects (lines 415-429), where it returns
get_starred_projects(p) ==
    IF ~_data_folder[p] \/ current_user_id(p) = NoUser THEN {}
    ELSE IF _get_starred_file_path(p) \notin DOMAIN starDir THEN {}
    ELSE IF starDir[_get_starred_file_path(p)].kind # "json" THEN {}
    ELSE starDir[_get_starred_file_path(p)].starred

add_or_discardToggles(current_starred, project_id, starred) ==
    IF project_id \in current_starred
    THEN current_starred \ {project_id}
    ELSE current_starred \cup {project_id}

\* lines 438-441: current_starred.add(project_id) or .discard(project_id)
add_or_discard(current_starred, project_id, starred) ==
    IF starred THEN current_starred \cup {project_id}
    ELSE current_starred \ {project_id}

\* set_project_starred (lines 431-445)
set_project_starred(p, project_id, starred) ==
    IF ~_data_folder[p] \/ current_user_id(p) = NoUser
    THEN /\ ret' = [ret EXCEPT ![p] =
                      Outcome("set_project_starred", "no", _data_folder[p],
                              "root" \in dirs, TRUE)]
         /\ UNCHANGED starDir
    ELSE IF get_starred_projects_raised(p) # "no"
    THEN /\ ret' = [ret EXCEPT ![p] =
                      Outcome("set_project_starred",
                              get_starred_projects_raised(p), TRUE,
                              "root" \in dirs, TRUE)]
         /\ UNCHANGED starDir
    ELSE IF "root" \notin dirs
    THEN /\ ret' = [ret EXCEPT ![p] =
                      Outcome("set_project_starred", "FileNotFoundError",
                              TRUE, FALSE, TRUE)]
         /\ UNCHANGED starDir
    ELSE /\ starDir' = WriteFile(starDir, _get_starred_file_path(p),
                           [kind |-> "json",
                            starred |-> add_or_discard(
                                          get_starred_projects(p),
                                          project_id, starred)])
         /\ ret' = [ret EXCEPT ![p] =
                      Outcome("set_project_starred", "no", TRUE, TRUE, TRUE)]

(***************************************************************************)
(* data_service.py: today's total                                          *)
(***************************************************************************)
RECURSIVE SumHours(_)
SumHours(entries) ==
    IF entries = <<>> THEN 0
    ELSE Head(entries).hours + SumHours(Tail(entries))

\* get_today_total_hours (lines 374-378): the cached entries only
get_today_total_hours(p) ==
    IF _today_entries[p] = None THEN 0
    ELSE SumHours(_today_entries[p].entries)

(***************************************************************************)
(* Initial state: a configured, empty data folder; nothing loaded yet.     *)
(***************************************************************************)
InitFolder ==
    /\ dirs = {"root", "projects", "time"}
    /\ teamFile = Absent
    /\ projDir = <<>>
    /\ timeDir = <<>>
    /\ starDir = <<>>

InitCaches ==
    /\ _current_user_id = [p \in Procs |-> NoUser]
    /\ _team_data = [p \in Procs |-> None]
    /\ _projects = [p \in Procs |-> <<>>]
    /\ _today_entries = [p \in Procs |-> None]
    /\ pc = [p \in Procs |-> "idle"]
    /\ loc = [p \in Procs |-> Idle]
    /\ ret = [p \in Procs |-> Idle]
    /\ held = [p \in Procs |-> None]

InitProcs ==
    /\ _data_folder = [p \in Procs |-> TRUE]
    /\ InitCaches

InitHist ==
    /\ nextId = 1
    /\ logged = {}
    /\ hoursLogged = [q \in QueryIds |-> 0]
    /\ landed = <<>>
    /\ envSteps = 0

(***************************************************************************)
(* SpecTime: each process logs time as its own user, in any interleaving   *)
(* of the reads and writes of save_time_entry.                             *)
(***************************************************************************)
InitTime ==
    /\ InitFolder /\ InitProcs /\ InitHist
    /\ today = 1
    /\ now = 0
    /\ calls = MaxCalls + 1

NextTime == \E p \in Procs : LogTime(p) \/ LogTimeWrite(p)

SpecTime == InitTime /\ [][NextTime]_vars

(***************************************************************************)
(* The store's operations as steps of a process at rest.                   *)
(***************************************************************************)
\* reload_all (lines 455-463); an exception ends it where it is raised
reload_all(p) ==
    \E order \in Orders(GlobJson(projDir)) :
      LET t == load_team_data_result(p)
          uid == identify_user_result(p, t.cache, get_os_username(p))
          user == IF uid # NoUser THEN uid ELSE get_os_username(p)
          pr == load_projects_result(p, order)
          te == load_today_entries_for(p, user, timeDir, today)
      IN IF ~is_configured(p)
         THEN /\ ret' = [ret EXCEPT ![p] =
                           Outcome("reload_all", "no", _data_folder[p],
                                   "root" \in dirs, TRUE)]
              /\ UNCHANGED cacheVars
         ELSE IF t.raised # "no"
         THEN /\ ret' = [ret EXCEPT ![p] =
                           Outcome("reload_all", t.raised, TRUE, TRUE,
                                   TRUE)]
              /\ UNCHANGED cacheVars
         ELSE /\ _team_data' = [_team_data EXCEPT ![p] = t.cache]
              /\ _current_user_id' = [_current_user_id EXCEPT ![p] = uid]
              /\ _projects' = [_projects EXCEPT ![p] = pr.cache]
              /\ _today_entries' = [_today_entries EXCEPT ![p] = te.cache]
              /\ ret' = [ret EXCEPT ![p] =
                           Outcome("reload_all", te.raised, TRUE, TRUE,
                                   FALSE)]
              /\ UNCHANGED _data_folder

ReloadAll(p) ==
    /\ Counted
    /\ pc[p] = "idle"
    /\ reload_all(p)
    /\ UNCHANGED <<fsVars, clockVars, pc, loc, held, histVars>>

\* a folder as the data_folder setter finds it
FolderNow ==
    [dirs |-> dirs, teamFile |-> teamFile, projDir |-> projDir,
     timeDir |-> timeDir, starDir |-> starDir]

\* the data_folder setter (lines 77-83) up to the test of line 95: the path
\* is kept, the two subfolders are made and team_data.json is looked for.
\* The folder variables are the folder self._data_folder names, so a setter
\* naming another folder replaces them by that folder's contents
SetDataFolder(p, folders) ==
    /\ Counted
    /\ pc[p] = "idle"
    /\ \E folder \in folders :
         /\ "root" \in folder.dirs
         /\ dirs' = folder.dirs \cup {"projects", "time"}
         /\ teamFile' = folder.teamFile
         /\ projDir' = folder.projDir
         /\ timeDir' = folder.timeDir
         /\ starDir' = folder.starDir
         /\ pc' = [pc EXCEPT ![p] = IF folder.teamFile = Absent
                                    THEN "ensure_write" ELSE "setter_reload"]
         /\ loc' = [loc EXCEPT ![p] =
                      [op |-> "data_folder", found |-> folder.teamFile,
                       before |-> [team_data |-> _team_data[p],
                                   projects |-> _projects[p],
                                   today_entries |-> _today_entries[p]]]]
    /\ _data_folder' = [_data_folder EXCEPT ![p] = TRUE]
    /\ UNCHANGED <<clockVars, _current_user_id, _team_data, _projects,
                   _today_entries, ret, held, histVars>>

\* _ensure_folder_structure, lines 96-119: the default document is written
\* when line 95 found no team_data.json
EnsureWrite(p) ==
    /\ Counted
    /\ pc[p] = "ensure_write"
    /\ teamFile' = JsonDoc(default_team_data)
    /\ pc' = [pc EXCEPT ![p] = "setter_reload"]
    /\ UNCHANGED <<dirs, projDir, timeDir, starDir, clockVars, cacheVars,
                   loc, ret, held, histVars>>

\* the data_folder setter, line 83: reload_all
SetterReload(p) ==
    /\ Counted
    /\ pc[p] = "setter_reload"
    /\ reload_all(p)
    /\ pc' = [pc EXCEPT ![p] = "idle"]
    /\ UNCHANGED <<fsVars, clockVars, loc, held, histVars>>

LoadTeamData(p) ==
    /\ Counted
    /\ pc[p] = "idle"
    /\ LET t == load_team_data_result(p) IN
         /\ _team_data' = [_team_data EXCEPT ![p] = t.cache]
         /\ ret' = [ret EXCEPT ![p] =
                      Outcome("load_team_data", t.raised, _data_folder[p],
                              "root" \in dirs, t.empty)]
    /\ UNCHANGED <<fsVars, clockVars, _data_folder, _current_user_id,
                   _projects, _today_entries, pc, loc, held, histVars>>

\* admin_screen.py, _save: the cached TeamData is changed in place and saved;
\* here the change adds an employee to the roster or removes one
AdminSave(p) ==
    /\ Counted
    /\ pc[p] = "idle"
    /\ _team_data[p] # None
    /\ Len(landed) < MaxSaves
    /\ \E u \in Users :
         save_team_data(p, [_team_data[p] EXCEPT !.employees =
                               IF u \in @ THEN @ \ {u} ELSE @ \cup {u}])
    /\ UNCHANGED <<dirs, projDir, timeDir, starDir, clockVars, _data_folder,
                   _current_user_id, _projects, _today_entries, pc, loc,
                   held, nextId, logged, hoursLogged, envSteps>>

LoadProjects(p) ==
    /\ Counted
    /\ pc[p] = "idle"
    /\ \E order \in Orders(GlobJson(projDir)) :
         LET r == load_projects_result(p, order) IN
           /\ _projects' = [_projects EXCEPT ![p] = r.cache]
           /\ ret' = [ret EXCEPT ![p] =
                        Outcome("load_projects", "no", _data_folder[p],
                                "root" \in dirs, r.returned = <<>>)
                          @@ [warnings |-> r.warnings,
                              returned |-> r.returned]]
    /\ UNCHANGED <<fsVars, clockVars, _data_folder, _current_user_id,
                   _team_data, _today_entries, pc, loc, held, histVars>>

\* ProjectDetailScreen._on_save of a new project without an external id
SaveNewProject(p, ids) ==
    /\ Counted
    /\ pc[p] = "idle"
    /\ now < MaxSaves
    /\ \E id \in ids :
         save_project(p, Project([id |-> id, name |-> "n1"]))
    /\ UNCHANGED <<dirs, teamFile, timeDir, starDir, today, _data_folder,
                   _current_user_id, _team_data, _today_entries, pc, loc,
                   nextId, logged, hoursLogged, envSteps>>

LoadTodayEntries(p) ==
    /\ Counted
    /\ pc[p] = "idle"
    /\ LET te == load_today_entries_result(p, timeDir, today) IN
         /\ _today_entries' = [_today_entries EXCEPT ![p] = te.cache]
         /\ ret' = [ret EXCEPT ![p] =
                      Outcome("load_today_entries", te.raised,
                              _data_folder[p], "root" \in dirs, te.empty)]
    /\ UNCHANGED <<fsVars, clockVars, _data_folder, _current_user_id,
                   _team_data, _projects, pc, loc, held, histVars>>

GetProjectTotalHours(p) ==
    /\ Counted
    /\ pc[p] = "idle"
    /\ \E q \in QueryIds :
         ret' = [ret EXCEPT ![p] =
                   Outcome("get_project_total_hours", "no", _data_folder[p],
                           "root" \in dirs, get_project_total_hours(p, q) = 0)
                   @@ [project_id |-> q,
                       total_hours |-> get_project_total_hours(p, q)]]
    /\ UNCHANGED <<fsVars, clockVars, cacheVars, pc, loc, held, histVars>>

GetStarredProjects(p) ==
    /\ Counted
    /\ pc[p] = "idle"
    /\ ret' = [ret EXCEPT ![p] =
                 Outcome("get_starred_projects",
                         get_starred_projects_raised(p), _data_folder[p],
                         "root" \in dirs,
                         /\ get_starred_projects_raised(p) = "no"
                         /\ get_starred_projects(p) = {})
                 @@ [file |-> IF _get_starred_file_path(p) \in DOMAIN starDir
                              THEN starDir[_get_starred_file_path(p)]
                              ELSE Absent]]
    /\ UNCHANGED <<fsVars, clockVars, cacheVars, pc, loc, held, histVars>>

\* HomeScreen._on_star_toggled
SetProjectStarred(p) ==
    /\ Counted
    /\ pc[p] = "idle"
    /\ \E project_id \in ProjectIds, starred \in BOOLEAN :
         set_project_starred(p, project_id, starred)
    /\ UNCHANGED <<dirs, teamFile, projDir, timeDir, clockVars, cacheVars,
                   pc, loc, held, histVars>>

\* set_current_user (lines 150-159)
SetCurrentUser(p) ==
    /\ Counted
    /\ pc[p] = "idle"
    /\ \E employee_id \in Users :
         _current_user_id' = [_current_user_id EXCEPT ![p] =
              identify_user_result(p, _team_data[p], employee_id)]
    /\ UNCHANGED <<fsVars, clockVars, _data_folder, _team_data, _projects,
                   _today_entries, ctlVars, histVars>>

\* midnight passes
Tick ==
    /\ Counted
    /\ today < MaxDate
    /\ today' = today + 1
    /\ UNCHANGED <<fsVars, now, cacheVars, ctlVars, histVars>>

\* the data root is deleted, moved or unmounted from outside
RemoveRoot ==
    /\ Counted
    /\ "root" \in dirs
    /\ envSteps < MaxEnv
    /\ envSteps' = envSteps + 1
    /\ dirs' = {}
    /\ teamFile' = Absent
    /\ projDir' = <<>>
    /\ timeDir' = <<>>
    /\ starDir' = <<>>
    /\ UNCHANGED <<clockVars, cacheVars, ctlVars, nextId, logged,
                   hoursLogged, landed>>

(***************************************************************************)
(* SpecRoot: one process calls the store's operations; it may have no data *)
(* folder configured, and the configured folder may vanish.                *)
(***************************************************************************)
InitRoot ==
    /\ dirs = {"root", "projects", "time"}
    /\ teamFile = JsonDoc(default_team_data)
    /\ projDir = <<>> /\ timeDir = <<>> /\ starDir = <<>>
    /\ InitCaches /\ InitHist
    /\ _data_folder \in {[p \in Procs |-> b] : b \in BOOLEAN}
    /\ today = 1
    /\ now = 0
    /\ calls = 0

NextRoot ==
    \/ \E p \in {"p1"} :
         \/ ReloadAll(p)
         \/ LoadTeamData(p)
         \/ AdminSave(p)
         \/ LoadProjects(p)
         \/ SaveNewProject(p, {"P1"})
         \/ LoadTodayEntries(p)
         \/ LogTimeWith(p, {"P1"}, {1})
         \/ LogTimeWrite(p)
         \/ GetProjectTotalHours(p)
         \/ GetStarredProjects(p)
         \/ SetProjectStarred(p)
    \/ RemoveRoot

SpecRoot == InitRoot /\ [][NextRoot]_vars

(***************************************************************************)
(* SpecToday: one process logs time while days pass and the current user   *)
(* changes.                                                                *)
(***************************************************************************)
InitToday ==
    /\ dirs = {"root", "projects", "time"}
    /\ teamFile = JsonDoc([employees |-> Users, work_types |-> WorkTypes])
    /\ projDir = <<>> /\ timeDir = <<>> /\ starDir = <<>>
    /\ InitProcs /\ InitHist
    /\ today = 1
    /\ now = 0
    /\ calls = MaxCalls + 1

NextToday ==
    \/ \E p \in {"p1"} :
         \/ ReloadAll(p)
         \/ LogTime(p)
         \/ LogTimeWrite(p)
         \/ SetCurrentUser(p)
    \/ Tick

SpecToday == InitToday /\ [][NextToday]_vars

(***************************************************************************)
(* SpecShared: two processes start, hold copies of the shared documents as *)
(* they loaded them and save them in any order.  A write is one step: the  *)
(* folder holds whole files, replaced as a whole by the tool that          *)
(* replicates it.                                                          *)
(***************************************************************************)
Names == {"n1", "n2"}      \* the names typed into the project form
Targets == {0, 8}          \* the target hours typed into the project form

\* HomeScreen._on_project_clicked: the cached project is opened in the editor
OpenProject(p) ==
    /\ Counted
    /\ pc[p] = "idle"
    /\ \E id \in DOMAIN _projects[p] :
         held' = [held EXCEPT ![p] = _projects[p][id]]
    /\ UNCHANGED <<fsVars, clockVars, cacheVars, pc, loc, ret, histVars>>

\* ProjectDetailScreen._on_save of an existing project: the form is applied
\* to the project held by the editor, which is then saved
SaveHeld(p) ==
    /\ Counted
    /\ pc[p] = "idle"
    /\ held[p] # None
    /\ Len(landed) < MaxSaves
    /\ \E name \in Names, target_hours \in Targets :
         save_project(p, [held[p] EXCEPT !.name = name,
                                         !.target_hours = target_hours])
    /\ UNCHANGED <<dirs, teamFile, timeDir, starDir, today, _data_folder,
                   _current_user_id, _team_data, _today_entries, pc, loc,
                   nextId, logged, hoursLogged, envSteps>>

\* main_window.py, line 52: reload_all runs once, when the application starts
Startup(p) ==
    /\ ret[p] = Idle
    /\ ReloadAll(p)

InitShared ==
    /\ dirs = {"root", "projects", "time"}
    /\ teamFile = JsonDoc([employees |-> {Alice}, work_types |-> WorkTypes])
    /\ projDir = (<<"P1", ".json">> :>
                    JsonDoc(Project([id |-> "P1", name |-> "n1"])))
    /\ timeDir = <<>> /\ starDir = <<>>
    /\ InitProcs /\ InitHist
    /\ today = 1
    /\ now = 0
    /\ calls = MaxCalls + 1

NextShared ==
    \E p \in Procs :
      \/ Startup(p)
      \/ OpenProject(p)
      \/ SaveHeld(p)
      \/ AdminSave(p)

SpecShared == InitShared /\ [][NextShared]_vars

(***************************************************************************)
(* SpecLoad: load_projects on a projects folder holding good files, files  *)
(* that are not JSON, JSON of the wrong shape and files sharing one id.    *)
(***************************************************************************)
ProjectFileNames == {<<"P1", ".json">>, <<"P2", ".json">>, <<"P3", ".json">>}

\* what a project file may hold: its own project, a project whose id is P1,
\* bytes that are not JSON, or JSON with a key Project does not know
ProjectFileContents(n) ==
    {JsonDoc(Project([id |-> n[1], name |-> "n1"])),
     JsonDoc(Project([id |-> "P1", name |-> "n2"])),
     Corrupt,
     JsonDoc([id |-> n[1], name |-> "n1", colour |-> "red"])}

Folders(names) ==
    UNION {[present -> UNION {ProjectFileContents(n) : n \in names}] :
           present \in SUBSET names}

InitLoad ==
    /\ dirs = {"root", "projects", "time"}
    /\ teamFile = Absent
    /\ projDir \in {f \in Folders(ProjectFileNames) :
                      \A n \in DOMAIN f : f[n] \in ProjectFileContents(n)}
    /\ timeDir = <<>> /\ starDir = <<>>
    /\ InitProcs /\ InitHist
    /\ today = 1
    /\ now = 0
    /\ calls = MaxCalls + 1

NextLoad == \E p \in {"p1"} : LoadProjects(p)

SpecLoad == InitLoad /\ [][NextLoad]_vars

(***************************************************************************)
(* reports_screen.py: the report                                           *)
(***************************************************************************)
\* file_path.stem: the name without ".json"
Stem(n) == SubSeq(n, 1, Len(n) - 1)

\* the place of the last "_" of a name, 0 when it has none
LastUnderscore(s) ==
    IF \E i \in 1..Len(s) : s[i] = "_"
    THEN CHOOSE i \in 1..Len(s) :
           s[i] = "_" /\ \A j \in (i + 1)..Len(s) : s[j] # "_"
    ELSE 0

\* filename.rsplit('_', 1)
rsplit(s) ==
    IF LastUnderscore(s) = 0 THEN <<s>>
    ELSE <<SubSeq(s, 1, LastUnderscore(s) - 1),
           SubSeq(s, LastUnderscore(s) + 1, Len(s))>>

\* datetime.strptime(file_date_str, "%Y-%m-%d").date(); 0: ValueError
strptime(s) == IF Len(s) = 1 THEN fromisoformat(s[1]) ELSE 0

InWindowExclusive(file_date, from_date, to_date) ==
    from_date <= file_date /\ file_date < to_date

\* not (file_date < from_date or file_date > to_date)
InWindow(file_date, from_date, to_date) ==
    ~(file_date < from_date \/ file_date > to_date)

\* the tests of _load_data on a file name (lines 407-427): TRUE when the file
\* is opened
ReportFileWanted(name, from_date, to_date, user_filter, current_user) ==
    /\ Len(rsplit(Stem(name))) = 2
    /\ strptime(rsplit(Stem(name))[2]) # 0
    /\ InWindow(strptime(rsplit(Stem(name))[2]), from_date, to_date)
    /\ ~(user_filter = "me" /\ rsplit(Stem(name))[1] # current_user)

\* entry['_user'] = file_user; entry['_date'] = file_date_str
TagEntries(entries, name) ==
    [i \in 1..Len(entries) |->
        [_user |-> rsplit(Stem(name))[1], _date |-> rsplit(Stem(name))[2][1]]
          @@ entries[i]]

\* one turn of the loop of _load_data on a file that opens (lines 405-438);
\* f holds the range of dates, the user filter and the current user
ReportFile(acc, name, content, f) ==
    IF ReportFileWanted(name, f.from_date, f.to_date, f.user_filter,
                        f.current_user)
       /\ content.kind = "json"
    THEN acc \o TagEntries(Entries(content), name)
    ELSE acc

RECURSIVE ReportFiles(_, _, _, _)
ReportFiles(acc, tdir, order, f) ==
    IF order = <<>> THEN acc
    ELSE ReportFiles(ReportFile(acc, Head(order), tdir[Head(order)], f),
                     tdir, Tail(order), f)

\* sum(e.get('hours', 0) if 'hours' in e else ... // 60 for e in entries)
RECURSIVE TotalHours(_)
TotalHours(entries) ==
    IF entries = <<>> THEN 0
    ELSE EntryHours(Head(entries)) + TotalHours(Tail(entries))

\* set(e.get('project_id') for e in self._entries), None left out: the cache
\* has no project for it
EntryProjectIds(entries) ==
    {entries[i].project_id :
       i \in {j \in 1..Len(entries) : "project_id" \in DOMAIN entries[j]}}

\* fractions, as pairs <<numerator, denominator>>
Undefined == "-"            \* the text of a card or cell without a ratio (a dash)
RatAdd(a, b) == <<a[1] * b[2] + b[1] * a[2], a[2] * b[2]>>
RatOverInt(a, n) == <<a[1], a[2] * n>>
RatEq(a, b) == a[1] * b[2] = b[1] * a[2]

\* project_hours / project.target_hours
Divide(hours, target_hours) ==
    IF target_hours = 0 THEN "ZeroDivisionError" ELSE <<hours, target_hours>>

HasRatioAlways(cache, pid) == pid \in DOMAIN cache

\* if project and project.target_hours > 0
HasRatio(cache, pid) ==
    pid \in DOMAIN cache /\ cache[pid].target_hours > 0

\* the list ratios of _update_summary (lines 467-477), by project
Ratios(entries, cache) ==
    [pid \in {q \in EntryProjectIds(entries) : HasRatio(cache, q)} |->
        Divide(SumEntries(entries, pid), cache[pid].target_hours)]

RECURSIVE RatSum(_, _)
RatSum(ratios, pids) ==
    IF pids = {} THEN <<0, 1>>
    ELSE LET q == CHOOSE x \in pids : TRUE
         IN RatAdd(ratios[q], RatSum(ratios, pids \ {q}))

\* _update_summary (lines 450-485): the total and the text of the average
\* ratio card; a division by zero ends it
update_summary(entries, cache) ==
    LET ratios == Ratios(entries, cache) IN
    IF \E q \in DOMAIN ratios : ratios[q] = "ZeroDivisionError"
    THEN [raised |-> "ZeroDivisionError", total_hours |-> TotalHours(entries),
          ratios |-> ratios, avg_ratio |-> Undefined]
    ELSE [raised |-> "no", total_hours |-> TotalHours(entries),
          ratios |-> ratios,
          avg_ratio |-> IF DOMAIN ratios = {} THEN Undefined
                        ELSE RatOverInt(RatSum(ratios, DOMAIN ratios),
                                        Cardinality(DOMAIN ratios))]

\* _update_by_project (lines 487-524): hours and the text of the ratio column
\* of each row
update_by_project(entries, cache) ==
    [pid \in EntryProjectIds(entries) |->
        [hours |-> SumEntries(entries, pid),
         ratio |-> IF pid \in DOMAIN cache /\ cache[pid].target_hours > 0
                   THEN Divide(SumEntries(entries, pid),
                               cache[pid].target_hours)
                   ELSE Undefined]]

\* entry.get('work_type', 'Unknown')
EntryWorkType(entry) ==
    IF "work_type" \in DOMAIN entry THEN entry.work_type ELSE "Unknown"

\* work_type_data[wt] (lines 535-542): the hours of the entries of a work type
RECURSIVE WorkTypeHours(_, _)
WorkTypeHours(entries, wt) ==
    IF entries = <<>> THEN 0
    ELSE (IF EntryWorkType(Head(entries)) = wt
          THEN EntryHours(Head(entries)) ELSE 0)
         + WorkTypeHours(Tail(entries), wt)

\* pct = (hours / total_hours * 100) if total_hours > 0 else 0
Percent(hours, total_hours) ==
    IF total_hours > 0 THEN Divide(hours * 100, total_hours) ELSE <<0, 1>>

\* _update_by_work_type (lines 526-597): hours and percentage of each row;
\* total_hours, the sum of the rows, is the sum over the entries
update_by_work_type(entries) ==
    [wt \in {EntryWorkType(entries[i]) : i \in 1..Len(entries)} |->
        [hours |-> WorkTypeHours(entries, wt),
         pct |-> Percent(WorkTypeHours(entries, wt), TotalHours(entries))]]

ReportDates == {1, 5, 10}        \* the dates picked in the report's range
UserFilters == {"all", "me"}     \* the data of user_combo

\* ReportsScreen._load_data followed by _update_display, with every listed
\* file readable for the length of the scan
Report(p) ==
    /\ Counted
    /\ pc[p] = "idle"
    /\ _data_folder[p]
    /\ \E from_date \in ReportDates, to_date \in ReportDates,
          user_filter \in UserFilters :
         \E order \in Orders(GlobJson(timeDir)) :
           LET entries == IF "time" \notin dirs THEN <<>>
                          ELSE ReportFiles(<<>>, timeDir, order,
                                   [from_date |-> from_date,
                                    to_date |-> to_date,
                                    user_filter |-> user_filter,
                                    current_user |-> current_user_id(p)])
               summary == update_summary(entries, _projects[p])
           IN ret' = [ret EXCEPT ![p] =
                        [op |-> "report", raised |-> summary.raised,
                         from_date |-> from_date, to_date |-> to_date,
                         user_filter |-> user_filter, _entries |-> entries,
                         total_hours |-> summary.total_hours,
                         ratios |-> summary.ratios,
                         avg_ratio |-> summary.avg_ratio,
                         rows |-> update_by_project(entries, _projects[p]),
                         work_types |-> update_by_work_type(entries)]]
    /\ UNCHANGED <<fsVars, clockVars, cacheVars, pc, loc, held, histVars>>

(***************************************************************************)
(* SpecReport: reports over a time folder that holds daily files of three  *)
(* users, a file that is not JSON and files whose names are not            *)
(* <user>_<date>.json, with the targets of the projects drawn from         *)
(* Targets and a project that is not in the cache.  A report depends on    *)
(* nothing that an earlier report left behind, so a run makes one report.  *)
(***************************************************************************)
AliceBob == <<"a", "_", "b">>     \* a user id with an underscore: "a_b"

\* the files that may be in <root>/time.  The entry of a_2024-01-10.json
\* carries another date than its file name (a file renamed by hand); the entry
\* of b_2024-01-05.json is a legacy one, with minutes; the entries of
\* b_2024-01-10.json count 0 hours
TimeFilePool ==
    (<<"a", "_", "2024-01-01", ".json">> :>
        DailyTimeFile(Alice, "2024-01-01",
            <<create_simple(1, "P1", "Planning", 3, "2024-01-01")>>))
    @@ (<<"a", "_", "2024-01-10", ".json">> :>
        DailyTimeFile(Alice, "2024-01-10",
            <<create_simple(2, "P1", "Planning", 4, "2024-01-01")>>))
    @@ (<<"b", "_", "2024-01-05", ".json">> :>
        DailyTimeFile(Bob, "2024-01-05",
            <<[id |-> 3, project_id |-> "P2", work_type |-> "Planning",
               duration_minutes |-> 150, date |-> "2024-01-05"]>>))
    @@ (<<"a", "_", "b", "_", "2024-01-01", ".json">> :>
        DailyTimeFile(AliceBob, "2024-01-01",
            <<create_simple(4, "P2", "Planning", 5, "2024-01-01")>>))
    @@ (<<"b", "_", "2024-01-10", ".json">> :>
        DailyTimeFile(Bob, "2024-01-10",
            <<[id |-> 7, project_id |-> "P2", work_type |-> "Review",
               duration_minutes |-> 30, date |-> "2024-01-10"],
              create_simple(8, "P1", "Planning", 0, "2024-01-10")>>))
    @@ (<<"a", "_", "2024-01-05", ".json">> :> Corrupt)
    @@ (<<"notes", ".json">> :>
        DailyTimeFile(Alice, "2024-01-01",
            <<create_simple(5, "P1", "Planning", 1, "2024-01-01")>>))
    @@ (<<"a", "_", "old", ".json">> :>
        DailyTimeFile(Alice, "2024-01-01",
            <<create_simple(6, "P3", "Planning", 1, "2024-01-01")>>))

\* the project caches: P1 always, P2 or not, each with a target of Targets
ProjectCaches ==
    {("P1" :> Project([id |-> "P1", name |-> "n1", target_hours |-> t]))
        : t \in Targets}
    \cup {("P1" :> Project([id |-> "P1", name |-> "n1", target_hours |-> t]))
          @@ ("P2" :> Project([id |-> "P2", name |-> "n2",
                               target_hours |-> u]))
            : t \in Targets, u \in Targets}

InitReport ==
    /\ dirs = {"root", "projects", "time"}
    /\ teamFile = Absent
    /\ projDir = <<>> /\ starDir = <<>>
    /\ timeDir \in {[n \in names |-> TimeFilePool[n]] :
                      names \in {s \in SUBSET DOMAIN TimeFilePool :
                                   Cardinality(s) <= MaxFiles}}
    /\ _data_folder = [p \in Procs |-> TRUE]
    /\ _current_user_id = [p \in Procs |-> NoUser]
    /\ _team_data = [p \in Procs |-> None]
    /\ _projects \in {[p \in Procs |-> c] : c \in ProjectCaches}
    /\ _today_entries = [p \in Procs |-> None]
    /\ pc = [p \in Procs |-> "idle"]
    /\ loc = [p \in Procs |-> Idle]
    /\ ret = [p \in Procs |-> Idle]
    /\ held = [p \in Procs |-> None]
    /\ InitHist
    /\ today = 1
    /\ now = 0
    /\ calls = MaxCalls - 1

NextReport == \E p \in {"p1"} : Report(p)

SpecReport == InitReport /\ [][NextReport]_vars

(***************************************************************************)
(* The bulk scans, one file at a time: the directory is listed when the    *)
(* loop starts and each listed file is opened in its turn.                 *)
(***************************************************************************)
ScanOps == {"load_projects", "get_project_total_hours",
            "_get_user_last_activity", "report"}

\* the exception classes named by the except clause around each loop body
load_projects_except == {"JSONDecodeError", "TypeError"}
get_project_total_hours_except == {"JSONDecodeError", "TypeError"}
_get_user_last_activity_except == {"JSONDecodeError", "IOError"}
_load_data_except == {"JSONDecodeError", "IOError"}

ExceptClause(op) ==
    CASE op = "load_projects" -> load_projects_except
      [] op = "get_project_total_hours" -> get_project_total_hours_except
      [] op = "_get_user_last_activity" -> _get_user_last_activity_except
      [] op = "report" -> _load_data_except

\* time_dir.glob(f"{user_id}_*.json")
GlobUser(dir, user_id) ==
    {n \in GlobJson(dir) :
        /\ Len(n) >= Len(user_id) + 2
        /\ SubSeq(n, 1, Len(user_id) + 1) = user_id \o <<"_">>}

\* entry.get('created_at') or entry.get('date') or entry.get('end_time', '')
EntryTime(entry) ==
    IF "created_at" \in DOMAIN entry /\ entry.created_at # ""
    THEN entry.created_at
    ELSE IF "date" \in DOMAIN entry /\ entry.date # "" THEN entry.date
    ELSE IF "end_time" \in DOMAIN entry THEN entry.end_time
    ELSE ""

\* the dates and times of day of this model in Python's order of strings: a
\* date is a prefix of the times of its day and comes before them
Timestamps ==
    <<"2024-01-01", "2024-01-01T09:00:00", "2024-01-02", "2024-01-02T09:00:00",
      "2024-01-03", "2024-01-04", "2024-01-05", "2024-01-05T09:00:00",
      "2024-01-06", "2024-01-07", "2024-01-08", "2024-01-09", "2024-01-10",
      "2024-01-10T11:00:00">>

\* the place of a string in that order, for `>` on strings; '' is the least
StrOrd(s) ==
    IF \E i \in 1..Len(Timestamps) : Timestamps[i] = s
    THEN CHOOSE i \in 1..Len(Timestamps) : Timestamps[i] = s
    ELSE 0

\* one entry of the loop of _get_user_last_activity (lines 286-293)
ActivityEntry(activity, entry) ==
    IF "project_id" \notin DOMAIN entry \/ entry.project_id = ""
    THEN activity
    ELSE IF entry.project_id \notin DOMAIN activity
            \/ StrOrd(EntryTime(entry)) > StrOrd(activity[entry.project_id])
    THEN (entry.project_id :> EntryTime(entry)) @@ activity
    ELSE activity

RECURSIVE ActivityFile(_, _)
ActivityFile(activity, entries) ==
    IF entries = <<>> THEN activity
    ELSE ActivityFile(ActivityEntry(activity, Head(entries)), Tail(entries))

\* the names the loop of a scan will visit
Listing(p, op) ==
    CASE op = "load_projects" -> GlobJson(projDir)
      [] op = "get_project_total_hours" -> GlobJson(timeDir)
      [] op = "_get_user_last_activity" ->
            GlobUser(timeDir, current_user_id(p))
      [] op = "report" -> GlobJson(timeDir)

\* the value a scan starts from
ScanStart(op) ==
    CASE op = "load_projects" -> [cache |-> <<>>, warnings |-> 0]
      [] op = "get_project_total_hours" -> 0
      [] op = "_get_user_last_activity" -> <<>>
      [] op = "report" -> <<>>

\* the body of the loop on a file that opened and decoded
ScanFile(p, l, name, content) ==
    CASE l.op = "load_projects" -> LoadProjectFile(l.acc, content)
      [] l.op = "get_project_total_hours" ->
            l.acc + SumEntries(Entries(content), l.project_id)
      [] l.op = "_get_user_last_activity" ->
            ActivityFile(l.acc, Entries(content))
      [] l.op = "report" ->
            ReportFile(l.acc, name, content,
                       [from_date |-> l.from_date, to_date |-> l.to_date,
                        user_filter |-> l.user_filter,
                        current_user |-> current_user_id(p)])

\* a scan starts: the early returns are passed and the directory is listed;
\* load_projects empties the cache first (line 216)
ScanBegin(p) ==
    /\ Counted
    /\ pc[p] = "idle"
    /\ _data_folder[p]
    /\ {"projects", "time"} \subseteq dirs
    /\ \E op \in ScanOps, project_id \in ProjectIds,
          user_filter \in UserFilters :
         \E order \in Orders(Listing(p, op)) :
           /\ loc' = [loc EXCEPT ![p] =
                        [op |-> op, todo |-> order, acc |-> ScanStart(op),
                         project_id |-> project_id, from_date |-> 1,
                         to_date |-> MaxDate, user_filter |-> user_filter]]
           /\ _projects' = [_projects EXCEPT ![p] =
                               IF op = "load_projects" THEN <<>> ELSE @]
    /\ pc' = [pc EXCEPT ![p] = "scan"]
    /\ UNCHANGED <<fsVars, clockVars, _data_folder, _current_user_id,
                   _team_data, _today_entries, ret, held, histVars>>

\* one turn of the loop: the next listed file is opened; an exception that the
\* except clause does not name ends the scan and reaches the caller
ScanOpen(p) ==
    /\ Counted
    /\ pc[p] = "scan"
    /\ loc[p].todo # <<>>
    /\ LET l == loc[p]
           name == Head(l.todo)
           dir == IF l.op = "load_projects" THEN projDir ELSE timeDir
           content == IF name \in DOMAIN dir THEN dir[name] ELSE Absent
           skipped == l.op = "report"
                      /\ ~ReportFileWanted(name, l.from_date, l.to_date,
                                           l.user_filter, current_user_id(p))
           exc == IF skipped THEN "no" ELSE OpenError(content)
           acc == IF skipped THEN l.acc
                  ELSE IF exc = "no" THEN ScanFile(p, l, name, content)
                  ELSE IF l.op = "load_projects"
                  THEN [l.acc EXCEPT !.warnings = @ + 1]
                  ELSE l.acc
       IN IF exc = "no" \/ Caught(exc, ExceptClause(l.op))
          THEN /\ loc' = [loc EXCEPT ![p] =
                            [l EXCEPT !.todo = Tail(l.todo), !.acc = acc]]
               /\ _projects' = [_projects EXCEPT ![p] =
                                   IF l.op = "load_projects" THEN acc.cache
                                   ELSE @]
               /\ UNCHANGED <<pc, ret>>
          ELSE /\ pc' = [pc EXCEPT ![p] = "idle"]
               /\ loc' = [loc EXCEPT ![p] = Idle]
               /\ ret' = [ret EXCEPT ![p] =
                            Outcome(l.op, exc, TRUE, TRUE, TRUE)
                              @@ [opened |-> name]]
               /\ UNCHANGED _projects
    /\ UNCHANGED <<fsVars, clockVars, _data_folder, _current_user_id,
                   _team_data, _today_entries, held, histVars>>

\* the loop is over: the scan returns what it gathered
ScanReturn(p) ==
    /\ Counted
    /\ pc[p] = "scan"
    /\ loc[p].todo = <<>>
    /\ pc' = [pc EXCEPT ![p] = "idle"]
    /\ loc' = [loc EXCEPT ![p] = Idle]
    /\ ret' = [ret EXCEPT ![p] =
                 Outcome(loc[p].op, "no", TRUE, TRUE, FALSE)
                   @@ [result |-> loc[p].acc]]
    /\ UNCHANGED <<fsVars, clockVars, cacheVars, held, histVars>>

\* the files that other machines create while a scan runs
ArrivingProjects ==
    (<<"P2", ".json">> :> JsonDoc(Project([id |-> "P2", name |-> "n2"])))
ArrivingTimeFiles ==
    (<<"b", "_", "2024-01-02", ".json">> :>
        DailyTimeFile(Bob, "2024-01-02",
            <<create_simple(9, "P1", "Planning", 2, "2024-01-02")>>))

RemoveFile(dir, name) == [n \in DOMAIN dir \ {name} |-> dir[n]]

\* a file is deleted on another machine and the deletion arrives here
FileVanishes ==
    /\ Counted
    /\ envSteps < MaxEnv
    /\ envSteps' = envSteps + 1
    /\ \/ \E n \in DOMAIN projDir :
            projDir' = RemoveFile(projDir, n) /\ UNCHANGED timeDir
       \/ \E n \in DOMAIN timeDir :
            timeDir' = RemoveFile(timeDir, n) /\ UNCHANGED projDir
    /\ UNCHANGED <<dirs, teamFile, starDir, clockVars, cacheVars, ctlVars,
                   nextId, logged, hoursLogged, landed>>

\* a file written on another machine arrives here, whole or only in part
FileArrives ==
    /\ Counted
    /\ envSteps < MaxEnv
    /\ envSteps' = envSteps + 1
    /\ \E whole \in BOOLEAN :
         \/ \E n \in DOMAIN ArrivingProjects :
              /\ projDir' = WriteFile(projDir, n,
                               IF whole THEN ArrivingProjects[n] ELSE Corrupt)
              /\ UNCHANGED timeDir
         \/ \E n \in DOMAIN ArrivingTimeFiles :
              /\ timeDir' = WriteFile(timeDir, n,
                               IF whole THEN ArrivingTimeFiles[n] ELSE Corrupt)
              /\ UNCHANGED projDir
    /\ UNCHANGED <<dirs, teamFile, starDir, clockVars, cacheVars, ctlVars,
                   nextId, logged, hoursLogged, landed>>

(***************************************************************************)
(* SpecScan: one process runs the scans while files vanish and arrive.     *)
(***************************************************************************)
InitScan ==
    /\ dirs = {"root", "projects", "time"}
    /\ teamFile = Absent
    /\ projDir = (<<"P1", ".json">> :>
                    JsonDoc(Project([id |-> "P1", name |-> "n1"])))
    /\ timeDir = (<<"a", "_", "2024-01-01", ".json">> :>
                    DailyTimeFile(Alice, "2024-01-01",
                        <<create_simple(1, "P1", "Planning", 3,
                                        "2024-01-01")>>))
                 @@ (<<"b", "_", "2024-01-01", ".json">> :>
                    DailyTimeFile(Bob, "2024-01-01",
                        <<create_simple(2, "P1", "Planning", 2,
                                        "2024-01-01")>>))
    /\ starDir = <<>>
    /\ InitProcs /\ InitHist
    /\ today = 1
    /\ now = 0
    /\ calls = MaxCalls + 1

NextScan ==
    \/ \E p \in {"p1"} :
         \/ ScanBegin(p)
         \/ ScanOpen(p)
         \/ ScanReturn(p)
    \/ FileVanishes
    \/ FileArrives

SpecScan == InitScan /\ [][NextScan]_vars

(***************************************************************************)
(* Claims about the time-entry store, checked under SpecTime.              *)
(***************************************************************************)
AllIdle == \A p \in Procs : pc[p] = "idle"

\* the places (file, index) at which an entry with this id is stored
Occurrences(id) ==
    UNION {{<<n, i>> : i \in {j \in 1..Len(Entries(timeDir[n])) :
                                  Entries(timeDir[n])[j].id = id}} :
           n \in {m \in DOMAIN timeDir : timeDir[m].kind = "json"}}

StoredPlaces ==
    UNION {{<<n, i>> : i \in 1..Len(Entries(timeDir[n]))} :
           n \in {m \in DOMAIN timeDir : timeDir[m].kind = "json"}}

\* the file name <user>_<date>.json written out, not computed by the model
DailyFileName(user, datestr) == user \o <<"_">> \o <<datestr>> \o <<".json">>

\* C1: with every process acting as its own user, once all save_time_entry
\* calls have completed every entry appended by a user is stored exactly once,
\* in that user's daily file for the entry's date, and nothing else is stored.
C1_NoEntryLostOrDuplicated ==
    AllIdle =>
      /\ \A l \in logged :
           /\ Cardinality(Occurrences(l.entry.id)) = 1
           /\ \A o \in Occurrences(l.entry.id) :
                /\ o[1] = DailyFileName(l.user, l.entry.date)
                /\ Entries(timeDir[o[1]])[o[2]] = l.entry
      /\ Cardinality(StoredPlaces) = Cardinality(logged)

\* C1 witness: both users have logged, in interleaved calls, and all calls
\* have completed
C1_Witness ==
    /\ AllIdle
    /\ \E a, b \in logged : a.user = Alice /\ b.user = Bob
    /\ Cardinality(logged) = MaxLogs

\* C2: the write of save_time_entry leaves the daily file holding its previous
\* entries in their order followed by the new entry (only the new entry when
\* the file was absent), whatever the file already holds: nothing is
\* deduplicated, and no other file changes.
C2_AppendsToDailyFile ==
    [][\A p \in Procs :
         (pc[p] = "save_write" /\ pc'[p] = "idle") =>
           LET path == DailyFileName(current_user_id(p), loc[p].entry.date)
               before == IF path \in DOMAIN timeDir
                         THEN Entries(timeDir[path]) ELSE <<>>
           IN /\ path \in DOMAIN timeDir'
              /\ timeDir'[path].kind = "json"
              /\ timeDir'[path].entries = before \o <<loc[p].entry>>
              /\ \A n \in DOMAIN timeDir' \ {path} :
                    n \in DOMAIN timeDir /\ timeDir'[n] = timeDir[n]
    ]_vars

\* C2 witness: one daily file holds two entries with the same project, work
\* type, hours and date
C2_Witness ==
    \E n \in DOMAIN timeDir :
      \E i, j \in 1..Len(Entries(timeDir[n])) :
        /\ i < j
        /\ Entries(timeDir[n])[i].project_id = Entries(timeDir[n])[j].project_id
        /\ Entries(timeDir[n])[i].work_type = Entries(timeDir[n])[j].work_type
        /\ Entries(timeDir[n])[i].hours = Entries(timeDir[n])[j].hours
        /\ Entries(timeDir[n])[i].date = Entries(timeDir[n])[j].date

RECURSIVE SumHoursAt(_, _)
SumHoursAt(places, project_id) ==
    IF places = {} THEN 0
    ELSE LET o == CHOOSE x \in places : TRUE
             e == Entries(timeDir[o[1]])[o[2]]
         IN (IF e.project_id = project_id THEN e.hours ELSE 0)
            + SumHoursAt(places \ {o}, project_id)

\* C3: get_project_total_hours(p) is the sum of hours of the entries with
\* project_id = p over every daily file of every user, which is also what has
\* been logged for p; 0 when nothing matches.
C3_ProjectTotalIsSumOverAllUsers ==
    \A p \in Procs : \A q \in QueryIds :
      /\ get_project_total_hours(p, q) = SumHoursAt(StoredPlaces, q)
      /\ get_project_total_hours(p, q) = hoursLogged[q]
      /\ (~\E o \in StoredPlaces : Entries(timeDir[o[1]])[o[2]].project_id = q)
            => get_project_total_hours(p, q) = 0

\* C3 witness: alice logged 3h and bob 2h on P1, the total of P1 is 5, and an
\* entry of P2 is stored as well
C3_Witness ==
    /\ \E l \in logged : l.user = Alice /\ l.entry.project_id = "P1"
                         /\ l.entry.hours = 3
    /\ \E l \in logged : l.user = Bob /\ l.entry.project_id = "P1"
                         /\ l.entry.hours = 2
    /\ \E l \in logged : l.entry.project_id = "P2"
    /\ get_project_total_hours("p1", "P1") = 5

(***************************************************************************)
(* Claims about the shared documents, checked under SpecShared.            *)
(***************************************************************************)
\* the content of the shared file at a path
FileAt(path) ==
    IF path = TeamPath THEN teamFile
    ELSE IF path \in DOMAIN projDir THEN projDir[path]
    ELSE Absent

\* the last write that landed on a path
LastLanded(path) ==
    landed[CHOOSE i \in 1..Len(landed) :
             /\ landed[i].path = path
             /\ \A j \in (i + 1)..Len(landed) : landed[j].path # path]

\* C4: whatever copies the processes hold and in whatever order they save, no
\* save of a shared document raises, and each shared file that has been
\* written holds exactly the complete document of the write that landed on it
\* last.
C4_LastWriteWins ==
    /\ \A i \in 1..Len(landed) :
         FileAt(landed[i].path) = JsonDoc(LastLanded(landed[i].path).doc)
    /\ \A p \in Procs :
         ret[p].op \in {"save_project", "save_team_data"}
           => ret[p].raised = "no"

\* C4 witness: both processes held a copy of project P1 named n1; one saved it
\* renamed to n2, the other then saved its own copy with another target: the
\* file is the second document and the rename is gone.  The same has happened
\* to team_data.json: the roster change of the earlier writer is gone.
C4_Witness ==
    /\ \E i, j \in 1..Len(landed) :
         /\ i < j
         /\ landed[i].path = <<"P1", ".json">> /\ landed[j].path = landed[i].path
         /\ landed[i].by # landed[j].by
         /\ landed[i].doc.name = "n2" /\ landed[j].doc.name = "n1"
         /\ landed[j].doc.target_hours = 8
         /\ projDir[<<"P1", ".json">>] = JsonDoc(landed[j].doc)
    /\ \E i, j \in 1..Len(landed) :
         /\ i < j
         /\ landed[i].path = TeamPath /\ landed[j].path = TeamPath
         /\ landed[i].by # landed[j].by
         /\ Bob \in landed[i].doc.employees
         /\ Bob \notin landed[j].doc.employees
         /\ teamFile = JsonDoc(landed[j].doc)

(***************************************************************************)
(* Claims about the missing data root and today's total.                   *)
(***************************************************************************)
StoreOps == {"load_team_data", "save_team_data", "load_projects",
             "save_project", "load_today_entries", "save_time_entry",
             "get_project_total_hours", "get_starred_projects",
             "set_project_starred"}

\* C7: a store operation called with no data folder configured, or with the
\* configured root missing on disk, raises nothing and returns the empty or
\* absent result.
C7_MissingRootNeverRaises ==
    \A p \in Procs :
      (ret[p].op \in StoreOps /\ (~ret[p].configured \/ ~ret[p].root))
        => (ret[p].raised = "no" /\ ret[p].empty)

\* the part of C7 that the code keeps: with no data folder configured every
\* store operation returns the empty or absent result and raises nothing
C7_UnconfiguredNeverRaises ==
    \A p \in Procs :
      (ret[p].op \in StoreOps /\ ~ret[p].configured)
        => (ret[p].raised = "no" /\ ret[p].empty)

\* the hours in the daily file of (user, day) on disk, 0 when it is absent
DiskDayTotal(user, day) ==
    IF DailyFileName(user, DateNames[day]) \in DOMAIN timeDir
    THEN SumHours(Entries(timeDir[DailyFileName(user, DateNames[day])]))
    ELSE 0

\* C8: whenever no call is in flight, get_today_total_hours is the sum of the
\* hours in the on-disk daily file of (current user, today), 0 when absent.
C8_TodayTotalIsTodaysFile ==
    \A p \in Procs :
      pc[p] = "idle" =>
        get_today_total_hours(p) = DiskDayTotal(current_user_id(p), today)

\* the part of C8 that the code keeps: right after a log action for today the
\* cached total is that of today's file
C8_TotalFreshAfterLogForToday ==
    \A p \in Procs :
      (pc[p] = "idle" /\ ret[p].op = "save_time_entry"
         /\ ret[p].raised = "no" /\ _today_entries[p] # None
         /\ _today_entries[p].date = DateNames[today]
         /\ _today_entries[p].user_id = current_user_id(p))
        => get_today_total_hours(p) = DiskDayTotal(current_user_id(p), today)

(***************************************************************************)
(* Claims about the bulk scans, checked under SpecScan and SpecLoad.       *)
(***************************************************************************)
\* C5: a bulk scan never ends with an exception, whatever vanishes from or
\* arrives in the folder while it runs: the file that cannot be read is
\* skipped and the scan returns.
C5_ScansSkipFailedFiles ==
    \A p \in Procs : ret[p].op \in ScanOps => ret[p].raised = "no"

\* the part of C5 that the code keeps: the user-activity scan and the report
\* load, whose except clauses name IOError, never end with an exception
C5_ActivityAndReportSkipFailedFiles ==
    \A p \in Procs :
      ret[p].op \in {"_get_user_last_activity", "report"}
        => ret[p].raised = "no"

\* the project files that are not JSON
CorruptProjectFiles == {n \in GlobJson(projDir) : projDir[n].kind # "json"}

\* the project files that decode to a project
GoodProjectFiles ==
    {n \in GlobJson(projDir) :
        projDir[n].kind = "json" /\ ProjectAccepts(projDir[n].doc)}

ReportUsers == {Alice, Bob, AliceBob}

\* the daily files of a range of dates and a user filter, by the way their
\* names are built: <user>_<date>.json
DailyFilesOf(from_date, to_date, user_filter, current_user) ==
    {n \in DOMAIN timeDir :
        \E u \in ReportUsers, d \in from_date..to_date :
           /\ n = DailyFileName(u, DateNames[d])
           /\ (user_filter = "me" => u = current_user)}

\* the entries stored in a set of files, as (file, index) places
PlacesOf(names) ==
    UNION {{<<n, i>> : i \in 1..Len(Entries(timeDir[n]))} :
           n \in {m \in names : timeDir[m].kind = "json"}}

RECURSIVE HoursAt(_)
HoursAt(places) ==
    IF places = {} THEN 0
    ELSE LET o == CHOOSE x \in places : TRUE
         IN EntryHours(Entries(timeDir[o[1]])[o[2]]) + HoursAt(places \ {o})

\* C9: a report holds exactly the entries of the daily files whose file-name
\* date lies in [from, to], both ends included, and whose file-name user
\* passes the filter, each once, whatever their own date field says; its total
\* is the sum of their hours.
C9_ReportWindowByFileName ==
    \A p \in Procs :
      ret[p].op = "report" =>
        LET places == PlacesOf(DailyFilesOf(ret[p].from_date, ret[p].to_date,
                                            ret[p].user_filter,
                                            current_user_id(p)))
        IN /\ Len(ret[p]._entries) = Cardinality(places)
           /\ {ret[p]._entries[i].id : i \in 1..Len(ret[p]._entries)}
                = {Entries(timeDir[o[1]])[o[2]].id : o \in places}
           /\ ret[p].total_hours = HoursAt(places)

\* C9 witness: the folder holds 3h in a_2024-01-01.json and 4h in
\* a_2024-01-10.json, whose entry is dated 2024-01-01; the report of
\* [2024-01-01, 2024-01-05] totals 3
C9_Witness ==
    /\ DOMAIN timeDir = {DailyFileName(Alice, "2024-01-01"),
                         DailyFileName(Alice, "2024-01-10")}
    /\ ret["p1"].op = "report"
    /\ ret["p1"].from_date = 1 /\ ret["p1"].to_date = 5
    /\ ret["p1"].total_hours = 3

\* the projects of the report's entries that have a positive target
RatioProjects(p) ==
    {q \in DOMAIN _projects[p] :
        /\ _projects[p][q].target_hours > 0
        /\ \E i \in 1..Len(ret[p]._entries) :
              EntryMatches(ret[p]._entries[i], q)}

\* the hours of the report's entries of one project
RECURSIVE ProjectHoursAt(_, _, _)
ProjectHoursAt(entries, indexes, q) ==
    IF indexes = {} THEN 0
    ELSE LET i == CHOOSE x \in indexes : TRUE
         IN (IF EntryMatches(entries[i], q) THEN EntryHours(entries[i])
             ELSE 0)
            + ProjectHoursAt(entries, indexes \ {i}, q)

\* the sum over a set of projects of hours / target_hours
RECURSIVE RatioSumOf(_, _)
RatioSumOf(p, qs) ==
    IF qs = {} THEN <<0, 1>>
    ELSE LET q == CHOOSE x \in qs : TRUE
         IN RatAdd(<<ProjectHoursAt(ret[p]._entries,
                                    1..Len(ret[p]._entries), q),
                     _projects[p][q].target_hours>>,
                   RatioSumOf(p, qs \ {q}))

\* C10: a report never divides by a target of 0: ratios are computed for the
\* projects with a positive target that have entries in the report and for no
\* other, the average ratio is the mean of hours / target_hours over them, and
\* it is the undefined marker when there is none; a project with target 0 has
\* the marker in its row.
C10_ZeroTargetHasNoRatio ==
    \A p \in Procs :
      ret[p].op = "report" =>
        /\ ret[p].raised = "no"
        /\ DOMAIN ret[p].ratios = RatioProjects(p)
        /\ \A q \in DOMAIN ret[p].rows :
              (q \in DOMAIN _projects[p] /\ _projects[p][q].target_hours = 0)
                => ret[p].rows[q].ratio = Undefined
        /\ IF RatioProjects(p) = {}
           THEN ret[p].avg_ratio = Undefined
           ELSE /\ ret[p].avg_ratio # Undefined
                /\ RatEq(<<ret[p].avg_ratio[1] * Cardinality(RatioProjects(p)),
                           ret[p].avg_ratio[2]>>,
                         RatioSumOf(p, RatioProjects(p)))

\* C10 witness: the report holds entries of P1 only, whose target is 0: the
\* average ratio is the undefined marker
C10_Witness ==
    /\ ret["p1"].op = "report"
    /\ ret["p1"]._entries # <<>>
    /\ \A i \in 1..Len(ret["p1"]._entries) :
          ret["p1"]._entries[i].project_id = "P1"
    /\ _projects["p1"]["P1"].target_hours = 0
    /\ ret["p1"].avg_ratio = Undefined
    /\ ret["p1"].raised = "no"

(***************************************************************************)
(* Claims about the report's grouping by work type, under SpecReport.      *)
(***************************************************************************)
\* C11: in the rows by work type the percentage of a row is hours * 100 /
\* total when the total of the report's hours is positive, and the undefined
\* marker when the total is 0.
C11_ZeroTotalPercentUndefined ==
    \A p \in Procs :
      ret[p].op = "report" =>
        \A wt \in DOMAIN ret[p].work_types :
          IF ret[p].total_hours > 0
          THEN RatEq(ret[p].work_types[wt].pct,
                     <<ret[p].work_types[wt].hours * 100, ret[p].total_hours>>)
          ELSE ret[p].work_types[wt].pct = Undefined

\* the part of C11 that the code keeps: no percentage is a division by 0; with
\* a total of 0 every row shows the number 0
C11_PercentNeverDividesByZero ==
    \A p \in Procs :
      ret[p].op = "report" =>
        \A wt \in DOMAIN ret[p].work_types :
          /\ ret[p].work_types[wt].pct # "ZeroDivisionError"
          /\ ret[p].total_hours = 0 => ret[p].work_types[wt].pct = <<0, 1>>

(***************************************************************************)
(* data_service.py: the projects in the order of the home screen.          *)
(***************************************************************************)
\* the loop of _get_user_last_activity (lines 281-296) over the files of the
\* glob in the order it yields them; a file that does not open or decode is
\* skipped
RECURSIVE ActivityFiles(_, _, _)
ActivityFiles(activity, dir, order) ==
    IF order = <<>> THEN activity
    ELSE ActivityFiles(IF OpenError(dir[Head(order)]) = "no"
                       THEN ActivityFile(activity, Entries(dir[Head(order)]))
                       ELSE activity,
                       dir, Tail(order))

\* _get_user_last_activity (lines 265-298)
_get_user_last_activity(p, order) ==
    IF ~_data_folder[p] \/ current_user_id(p) = NoUser THEN <<>>
    ELSE IF "time" \notin dirs THEN <<>>
    ELSE ActivityFiles(<<>>, timeDir, order)

\* sort_key (lines 258-260): (user_activity.get(p.id, ""), p.modified_at or "")
sort_key(project, user_activity) ==
    <<IF project.id \in DOMAIN user_activity
      THEN StrOrd(user_activity[project.id]) ELSE 0,
      project.modified_at>>

\* a >= b on the tuples of sort_key
KeyGeq(a, b) == a[1] > b[1] \/ (a[1] = b[1] /\ a[2] >= b[2])

\* projects.sort(key=sort_key, reverse=True): the orders of the cached ids
\* that descend by key; projects of equal keys keep the order of the cache,
\* which is any order here
get_all_projects(cache, user_activity) ==
    {o \in Orders(DOMAIN cache) :
        \A i \in 1..(Len(o) - 1) :
            KeyGeq(sort_key(cache[o[i]], user_activity),
                   sort_key(cache[o[i + 1]], user_activity))}

\* HomeScreen refreshes its list: get_all_projects (lines 250-263)
GetAllProjects(p) ==
    /\ Counted
    /\ pc[p] = "idle"
    /\ \E order \in Orders(IF "time" \in dirs
                            THEN GlobUser(timeDir, current_user_id(p))
                            ELSE {}) :
       \E projects \in get_all_projects(_projects[p],
                                        _get_user_last_activity(p, order)) :
         ret' = [ret EXCEPT ![p] =
                   Outcome("get_all_projects", "no", _data_folder[p],
                           "root" \in dirs, projects = <<>>)
                   @@ [user_activity |-> _get_user_last_activity(p, order),
                       projects |-> projects]]
    /\ UNCHANGED <<fsVars, clockVars, cacheVars, pc, loc, held, histVars>>

(***************************************************************************)
(* SpecRecent: one user asks for the projects over a time folder that      *)
(* holds daily files of users a, b and a_b.                                *)
(***************************************************************************)
\* a's entry of 01-05 was created on 01-02; the entry of a_2024-01-10.json is
\* a legacy one; a_2024-01-03.json is not JSON
RecentFilePool ==
    (<<"a", "_", "2024-01-01", ".json">> :>
        DailyTimeFile(Alice, "2024-01-01",
            <<create_simple(1, "P1", "Planning", 3, "2024-01-01")
                @@ [created_at |-> "2024-01-01T09:00:00"]>>))
    @@ (<<"a", "_", "2024-01-05", ".json">> :>
        DailyTimeFile(Alice, "2024-01-05",
            <<create_simple(2, "P2", "Planning", 2, "2024-01-05")
                @@ [created_at |-> "2024-01-02T09:00:00"],
              create_simple(3, "P1", "Planning", 2, "2024-01-05")>>))
    @@ (<<"a", "_", "2024-01-10", ".json">> :>
        DailyTimeFile(Alice, "2024-01-10",
            <<[id |-> 4, project_id |-> "P3", work_type |-> "Planning",
               duration_minutes |-> 120, start_time |-> "2024-01-10T09:00:00",
               end_time |-> "2024-01-10T11:00:00"]>>))
    @@ (<<"a", "_", "2024-01-03", ".json">> :> Corrupt)
    @@ (<<"b", "_", "2024-01-02", ".json">> :>
        DailyTimeFile(Bob, "2024-01-02",
            <<create_simple(5, "P2", "Planning", 2, "2024-01-02")
                @@ [created_at |-> "2024-01-02T09:00:00"]>>))
    @@ (<<"a", "_", "b", "_", "2024-01-05", ".json">> :>
        DailyTimeFile(AliceBob, "2024-01-05",
            <<create_simple(6, "P3", "Planning", 2, "2024-01-05")
                @@ [created_at |-> "2024-01-05T09:00:00"]>>))

ModifiedAts == {1, 2}      \* the times of the last saves of the projects

\* the project caches: P1, P2 and P3, each last saved at a time of ModifiedAts
RecentCaches ==
    {("P1" :> Project([id |-> "P1", name |-> "n1", modified_at |-> t]))
     @@ ("P2" :> Project([id |-> "P2", name |-> "n2", modified_at |-> u]))
     @@ ("P3" :> Project([id |-> "P3", name |-> "n1", modified_at |-> v]))
        : t \in ModifiedAts, u \in ModifiedAts, v \in ModifiedAts}

InitRecent ==
    /\ dirs = {"root", "projects", "time"}
    /\ teamFile = Absent
    /\ projDir = <<>> /\ starDir = <<>>
    /\ timeDir \in {[n \in names |-> RecentFilePool[n]] :
                      names \in SUBSET DOMAIN RecentFilePool}
    /\ _data_folder = [p \in Procs |-> TRUE]
    /\ _current_user_id \in {[p \in Procs |-> u] : u \in {Alice, Bob, AliceBob}}
    /\ _team_data = [p \in Procs |-> None]
    /\ _projects \in {[p \in Procs |-> c] : c \in RecentCaches}
    /\ _today_entries = [p \in Procs |-> None]
    /\ pc = [p \in Procs |-> "idle"]
    /\ loc = [p \in Procs |-> Idle]
    /\ ret = [p \in Procs |-> Idle]
    /\ held = [p \in Procs |-> None]
    /\ InitHist
    /\ today = 1
    /\ now = 2
    /\ calls = MaxCalls - 1

NextRecent == \E p \in {"p1"} : GetAllProjects(p)

SpecRecent == InitRecent /\ [][NextRecent]_vars

(***************************************************************************)
(* Claims about the order of the projects, checked under SpecRecent.       *)
(***************************************************************************)
\* the entry stored at a place (file, index)
EntryAt(o) == Entries(timeDir[o[1]])[o[2]]

\* the places of a user's entries for a project: the entries of the files
\* <user>_<date>.json that name the project
OwnPlaces(user, project_id) ==
    {o \in PlacesOf(DailyFilesOf(1, Len(DateNames), "me", user)) :
        /\ "project_id" \in DOMAIN EntryAt(o)
        /\ EntryAt(o).project_id = project_id}

\* the files that the scan of a user matches: <user>_*.json
MatchedPlaces(user, project_id) ==
    {o \in PlacesOf(GlobUser(timeDir, user)) :
        /\ "project_id" \in DOMAIN EntryAt(o)
        /\ EntryAt(o).project_id = project_id}

\* the greatest place in the order of strings of the times of a set of places
LastOf(places) ==
    IF places = {} THEN 0
    ELSE CHOOSE k \in {StrOrd(EntryTime(EntryAt(o))) : o \in places} :
           \A o \in places : k >= StrOrd(EntryTime(EntryAt(o)))

\* C12: get_all_projects returns every cached project exactly once; the
\* projects for which the current user has an entry in their own daily files
\* come first, by descending time of that user's latest entry, and the others
\* follow by descending modified_at.
C12_RecentProjectsFirst ==
    \A p \in Procs :
      ret[p].op = "get_all_projects" =>
        LET o == ret[p].projects
            last(q) == LastOf(OwnPlaces(current_user_id(p), q))
        IN /\ Len(o) = Cardinality(DOMAIN _projects[p])
           /\ {o[i] : i \in 1..Len(o)} = DOMAIN _projects[p]
           /\ \A i, j \in 1..Len(o) :
                i < j =>
                  /\ last(o[i]) >= last(o[j])
                  /\ (last(o[i]) = 0 /\ last(o[j]) = 0) =>
                       _projects[p][o[i]].modified_at
                         >= _projects[p][o[j]].modified_at

\* the part of C12 that the code keeps: every cached project once, by
\* descending time of the activity map and then by descending modified_at
C12_OrderedByActivityMap ==
    \A p \in Procs :
      ret[p].op = "get_all_projects" =>
        LET o == ret[p].projects
            last(q) == IF q \in DOMAIN ret[p].user_activity
                       THEN StrOrd(ret[p].user_activity[q]) ELSE 0
        IN /\ Len(o) = Cardinality(DOMAIN _projects[p])
           /\ {o[i] : i \in 1..Len(o)} = DOMAIN _projects[p]
           /\ \A i, j \in 1..Len(o) :
                i < j =>
                  /\ last(o[i]) >= last(o[j])
                  /\ last(o[i]) = last(o[j]) =>
                       _projects[p][o[i]].modified_at
                         >= _projects[p][o[j]].modified_at

\* created_at if present, else the entry's date, else nothing
CreatedOrDate(entry) ==
    IF "created_at" \in DOMAIN entry /\ entry.created_at # ""
    THEN entry.created_at
    ELSE IF "date" \in DOMAIN entry /\ entry.date # "" THEN entry.date
    ELSE ""

\* C13: the activity map of a user holds exactly the projects for which the
\* user has an entry in their own daily files, each with the greatest of
\* (created_at, else date, else nothing) over those entries.
C13_LastActivityIsMaxOfOwnEntries ==
    \A p \in Procs :
      ret[p].op = "get_all_projects" =>
        LET activity == ret[p].user_activity
            own(q) == OwnPlaces(current_user_id(p), q)
        IN /\ \A q \in DOMAIN activity : own(q) # {}
           /\ \A q \in QueryIds \cup {"P3"} :
                own(q) # {} =>
                  /\ q \in DOMAIN activity
                  /\ \E o \in own(q) :
                       activity[q] = CreatedOrDate(EntryAt(o))
                  /\ \A o \in own(q) :
                       StrOrd(activity[q])
                         >= StrOrd(CreatedOrDate(EntryAt(o)))

\* the part of C13 that the code keeps: over the entries of the files that
\* <user>_*.json matches, with end_time standing in where an entry has neither
\* created_at nor date, the map holds the greatest time of each project
C13_LastActivityOfMatchedFiles ==
    \A p \in Procs :
      ret[p].op = "get_all_projects" =>
        LET activity == ret[p].user_activity
            matched(q) == MatchedPlaces(current_user_id(p), q)
        IN /\ \A q \in DOMAIN activity : matched(q) # {}
           /\ \A q \in QueryIds \cup {"P3"} :
                matched(q) # {} =>
                  /\ q \in DOMAIN activity
                  /\ StrOrd(activity[q]) = LastOf(matched(q))

\* C14: the activity map of a user, and the order of the projects it gives,
\* are those that the user's own daily files alone give: the files of the
\* other users change nothing.
C14_OtherUsersFilesChangeNothing ==
    \A p \in Procs :
      ret[p].op = "get_all_projects" =>
        LET own == DailyFilesOf(1, Len(DateNames), "me", current_user_id(p))
            alone == ActivityFiles(<<>>, timeDir,
                                   CHOOSE order \in Orders(own) : TRUE)
        IN /\ ret[p].user_activity = alone
           /\ ret[p].projects \in get_all_projects(_projects[p], alone)

(***************************************************************************)
(* SpecStar: two users star and unstar projects; the read of the starred   *)
(* file and its write are two steps of set_project_starred, in any         *)
(* interleaving.                                                           *)
(***************************************************************************)
\* set_project_starred up to the read of the file (lines 433-441)
SetProjectStarredRead(p) ==
    /\ Counted
    /\ pc[p] = "idle"
    /\ \E project_id \in ProjectIds, starred \in BOOLEAN :
         IF ~_data_folder[p] \/ current_user_id(p) = NoUser
         THEN /\ ret' = [ret EXCEPT ![p] =
                           Outcome("set_project_starred", "no",
                                   _data_folder[p], "root" \in dirs, TRUE)]
              /\ UNCHANGED <<pc, loc>>
         ELSE IF get_starred_projects_raised(p) # "no"
         THEN /\ ret' = [ret EXCEPT ![p] =
                           Outcome("set_project_starred",
                                   get_starred_projects_raised(p), TRUE,
                                   "root" \in dirs, TRUE)]
              /\ UNCHANGED <<pc, loc>>
         ELSE /\ pc' = [pc EXCEPT ![p] = "star_write"]
              /\ loc' = [loc EXCEPT ![p] =
                           [op |-> "set_project_starred",
                            project_id |-> project_id, starred |-> starred,
                            current_starred |->
                                add_or_discard(get_starred_projects(p),
                                               project_id, starred)]]
              /\ UNCHANGED ret
    /\ UNCHANGED <<fsVars, clockVars, cacheVars, held, histVars>>

\* set_project_starred: the write of the file (lines 443-445)
SetProjectStarredWrite(p) ==
    /\ Counted
    /\ pc[p] = "star_write"
    /\ loc[p].op = "set_project_starred"
    /\ IF "root" \notin dirs
       THEN /\ ret' = [ret EXCEPT ![p] =
                         Outcome("set_project_starred", "FileNotFoundError",
                                 TRUE, FALSE, TRUE)]
            /\ UNCHANGED starDir
       ELSE /\ starDir' = WriteFile(starDir, _get_starred_file_path(p),
                              [kind |-> "json",
                               starred |-> loc[p].current_starred])
            /\ ret' = [ret EXCEPT ![p] =
                         Outcome("set_project_starred", "no", TRUE, TRUE,
                                 TRUE)]
    /\ pc' = [pc EXCEPT ![p] = "idle"]
    /\ loc' = [loc EXCEPT ![p] = Idle]
    /\ UNCHANGED <<dirs, teamFile, projDir, timeDir, clockVars, cacheVars,
                   held, histVars>>

\* what a starred file may hold when the run starts
StarFileContents ==
    {[kind |-> "json", starred |-> {}], [kind |-> "json", starred |-> {"P1"}],
     Corrupt, Undecodable}

\* the first process is user a, the second is user b or user a_b
InitStar ==
    /\ dirs = {"root", "projects", "time"}
    /\ teamFile = Absent
    /\ projDir = <<>> /\ timeDir = <<>>
    /\ \E second \in {Bob, AliceBob} :
         /\ _current_user_id = [p \in Procs |->
                                  IF p = "p1" THEN Alice ELSE second]
         /\ starDir \in UNION {[names -> StarFileContents] :
                                 names \in SUBSET {Alice \o <<"_starred.json">>,
                                                   second \o <<"_starred.json">>}}
    /\ _data_folder = [p \in Procs |-> TRUE]
    /\ _team_data = [p \in Procs |-> None]
    /\ _projects = [p \in Procs |-> <<>>]
    /\ _today_entries = [p \in Procs |-> None]
    /\ pc = [p \in Procs |-> "idle"]
    /\ loc = [p \in Procs |-> Idle]
    /\ ret = [p \in Procs |-> Idle]
    /\ held = [p \in Procs |-> None]
    /\ InitHist
    /\ today = 1
    /\ now = 0
    /\ calls = 0

NextStar ==
    \E p \in Procs :
       \/ SetProjectStarredRead(p)
       \/ SetProjectStarredWrite(p)
       \/ GetStarredProjects(p)

SpecStar == InitStar /\ [][NextStar]_vars

(***************************************************************************)
(* Claims about the starred projects, checked under SpecStar.              *)
(***************************************************************************)
\* the file name <user>_starred.json written out
StarFileName(user) == user \o <<"_starred.json">>

\* the content of a file of the root folder, Absent when it is not there
StarFileAt(dir, name) == IF name \in DOMAIN dir THEN dir[name] ELSE Absent

\* C15: a step changes the starred file <B>_starred.json only when it is the
\* write of set_project_starred by a process whose user is B: the starred
\* files of all other users are the same before and after it, whatever the
\* interleaving of the reads and writes of the two users.
C15_StarWritesOwnFileOnly ==
    [][\A name \in DOMAIN starDir \cup DOMAIN starDir' :
          StarFileAt(starDir, name) # StarFileAt(starDir', name) =>
            \E p \in Procs :
               /\ pc[p] = "star_write" /\ pc'[p] = "idle"
               /\ name = StarFileName(current_user_id(p))]_vars

\* C15 witness: both users have starred, each in a file of their own: a holds
\* P1 and b holds P2
C15_Witness ==
    /\ ret["p1"].op = "set_project_starred"
    /\ ret["p2"].op = "set_project_starred"
    /\ StarFileName(Alice) \in DOMAIN starDir
    /\ StarFileName(Bob) \in DOMAIN starDir
    /\ starDir[StarFileName(Alice)] = [kind |-> "json", starred |-> {"P1"}]
    /\ starDir[StarFileName(Bob)] = [kind |-> "json", starred |-> {"P2"}]

\* C16: get_starred_projects raises nothing, and returns the empty set when
\* the user's starred file is absent or is there but does not read or decode.
C16_GetStarredNeverRaises ==
    \A p \in Procs :
      ret[p].op = "get_starred_projects" =>
        /\ ret[p].raised = "no"
        /\ (ret[p].file = Absent \/ ret[p].file.kind # "json") => ret[p].empty

\* the part of C16 that the code keeps: an absent file and a file that is not
\* JSON give the empty set and no exception
C16_AbsentOrNotJsonGivesEmptySet ==
    \A p \in Procs :
      (ret[p].op = "get_starred_projects"
       /\ (ret[p].file = Absent \/ ret[p].file = Corrupt))
        => ret[p].raised = "no" /\ ret[p].empty

(***************************************************************************)
(* SpecIds: one user creates, opens and saves projects from the project    *)
(* form, which carries the external id; the folder may hold a legacy       *)
(* record.                                                                 *)
(***************************************************************************)
ExternalIds == {"", "X1"}      \* the texts typed into the Project ID field

\* Project.generate_id(): a time and four random digits, new at each call
GeneratedIds == <<"PRJ-1", "PRJ-2", "PRJ-3", "PRJ-4", "PRJ-5", "PRJ-6">>

generate_id == GeneratedIds[Len(landed) + 1]

\* datetime.now() of a save: later than that of the save before, or the
\* same when the clock has not moved
ClockReadings == {t \in {now, now + 1} : t >= 1}

\* ProjectDetailScreen._on_save of a new project (lines 1301-1342): the id is
\* the external id when one is typed, a generated one otherwise; course_id is
\* the external id too (get_project_data, line 258)
CreateProject(p) ==
    /\ Counted
    /\ pc[p] = "idle"
    /\ Len(landed) < MaxSaves
    /\ \E name \in {"n1"}, project_id \in ExternalIds :
         save_project(p, Project([id |-> IF project_id # "" THEN project_id
                                         ELSE generate_id,
                                  name |-> name, project_id |-> project_id,
                                  course_id |-> project_id]))
    /\ UNCHANGED <<dirs, teamFile, timeDir, starDir, today, _data_folder,
                   _current_user_id, _team_data, _today_entries, pc, loc,
                   nextId, logged, hoursLogged, envSteps>>

\* ProjectDetailScreen._on_save of an existing project (lines 1312-1342): the
\* form is applied to the project held by the editor, which is then saved
SaveHeldAs(p) ==
    /\ Counted
    /\ pc[p] = "idle"
    /\ held[p] # None
    /\ Len(landed) < MaxSaves
    /\ \E name \in Names, project_id \in ExternalIds, t \in ClockReadings :
         save_project_at(p, [held[p] EXCEPT !.name = name,
                                            !.project_id = project_id,
                                            !.course_id = project_id,
                                            !.campus = "", !.offer = "",
                                            !.sub_offer = "",
                                            !.effort_type = "",
                                            !.course_type = "", !.lpo = "",
                                            !.sme = "", !.lxo = ""], t)
    /\ UNCHANGED <<dirs, teamFile, timeDir, starDir, today, _data_folder,
                   _current_user_id, _team_data, _today_entries, pc, loc,
                   nextId, logged, hoursLogged, envSteps>>

\* a record written by an earlier version: flat fields, course_id as the
\* external id
LegacyProject ==
    [id |-> "P1", name |-> "n1", course_id |-> "X1", campus |-> "north",
     lpo |-> "a", course_duration_minutes |-> 90]

InitIds ==
    /\ dirs = {"root", "projects", "time"}
    /\ teamFile = JsonDoc([employees |-> {Alice}, work_types |-> WorkTypes])
    /\ projDir \in {<<>>, (<<"X1", ".json">> :> JsonDoc(LegacyProject))}
    /\ timeDir = <<>> /\ starDir = <<>>
    /\ InitProcs /\ InitHist
    /\ today = 1
    /\ now = 0
    /\ calls = MaxCalls + 1

NextIds ==
    \E p \in {"p1"} :
      \/ Startup(p)
      \/ OpenProject(p)
      \/ CreateProject(p)
      \/ SaveHeldAs(p)

SpecIds == InitIds /\ [][NextIds]_vars

(***************************************************************************)
(* Claims about the project files, checked under SpecIds.                  *)
(***************************************************************************)
\* C17: whatever projects are created and saved, with or without a change of
\* the external id, no two files of projects/ hold the same project id.
C17_NoTwoFilesShareAnId ==
    \A m, n \in GoodProjectFiles :
       m # n => projDir[m].doc.id # projDir[n].doc.id

\* C18: when a save writes the very document that the save before it wrote
\* (the same project, unchanged, by the same process and user, stamped with
\* the same time), it resolves to the same path and leaves projects/ as it
\* was after the first save: the same files with the same content.
C18_ResaveOverwrites ==
    [][(/\ Len(landed) > 0
        /\ Len(landed') = Len(landed) + 1
        /\ landed'[Len(landed')].by = landed[Len(landed)].by
        /\ landed'[Len(landed')].doc = landed[Len(landed)].doc)
         => /\ landed'[Len(landed')].path = landed[Len(landed)].path
            /\ projDir' = projDir]_vars

\* C18 witness: a project was created and then saved again unchanged at the
\* same time; projects/ holds its one file, with the content that was saved
C18_Witness ==
    /\ Len(landed) = 2
    /\ landed[1].by = landed[2].by
    /\ landed[1].doc = landed[2].doc
    /\ DOMAIN projDir = {landed[1].path}
    /\ projDir[landed[1].path] = JsonDoc(landed[1].doc)

\* C19: no file written by save_project holds one of the legacy flat fields.
C19_SavedFilesHaveNoLegacyFields ==
    \A i \in 1..Len(landed) :
       landed[i].path \in DOMAIN projDir =>
         DOMAIN projDir[landed[i].path].doc \cap LegacyFields = {}

(***************************************************************************)
(* SpecLegacy: the readers of the daily files over a time folder that      *)
(* holds entries written by an earlier version.                            *)
(***************************************************************************)
\* an entry with the legacy field names only
LegacyEntry(id, project_id, minutes) ==
    [id |-> id, project_id |-> project_id, work_type |-> "Planning",
     duration_minutes |-> minutes, start_time |-> "2024-01-01",
     end_time |-> "2024-01-01T09:00:00"]

\* what today's file of user a may hold: entries of the current schema,
\* legacy entries, an entry with both hours and duration_minutes
LegacyTodayContents ==
    {<<create_simple(1, "P1", "Planning", 3, "2024-01-01")>>,
     <<LegacyEntry(2, "P1", 150)>>,
     <<create_simple(3, "P1", "Planning", 3, "2024-01-01")
         @@ [duration_minutes |-> 60]>>,
     <<create_simple(1, "P1", "Planning", 3, "2024-01-01"),
       LegacyEntry(2, "P2", 150)>>}

\* the time folders: today's file of user a or not, a legacy file of user b
\* or not
LegacyFolders ==
    {dir @@ other :
       dir \in {<<>>} \cup
               {(<<"a", "_", "2024-01-01", ".json">> :>
                   DailyTimeFile(Alice, "2024-01-01", entries))
                  : entries \in LegacyTodayContents},
       other \in {<<>>,
                  (<<"b", "_", "2024-01-05", ".json">> :>
                     DailyTimeFile(Bob, "2024-01-05",
                                   <<LegacyEntry(4, "P1", 59)>>))}}

InitLegacy ==
    /\ dirs = {"root", "projects", "time"}
    /\ teamFile = Absent
    /\ projDir = <<>> /\ starDir = <<>>
    /\ timeDir \in LegacyFolders
    /\ InitProcs /\ InitHist
    /\ today = 1
    /\ now = 0
    /\ calls = MaxCalls + 1

NextLegacy ==
    \E p \in {"p1"} :
      \/ LoadTodayEntries(p)
      \/ GetProjectTotalHours(p)
      \/ Report(p)
      \/ GetAllProjects(p)

SpecLegacy == InitLegacy /\ [][NextLegacy]_vars

(***************************************************************************)
(* Claims about legacy entries, checked under SpecLegacy.                  *)
(***************************************************************************)
\* the hours of an entry of either schema: hours when present, else
\* duration_minutes div 60
HoursOfEitherSchema(entry) ==
    IF "hours" \in DOMAIN entry THEN entry.hours
    ELSE entry.duration_minutes \div 60

RECURSIVE HoursOfPlaces(_)
HoursOfPlaces(places) ==
    IF places = {} THEN 0
    ELSE LET o == CHOOSE x \in places : TRUE
         IN HoursOfEitherSchema(EntryAt(o)) + HoursOfPlaces(places \ {o})

\* the places of the entries of a project in all daily files
ProjectPlaces(project_id) ==
    {o \in StoredPlaces : EntryAt(o).project_id = project_id}

\* C20: every reader of the daily files accepts entries with legacy field
\* names and counts hours, else duration_minutes div 60: load_today_entries
\* raises nothing and caches every entry of today's file, the project total
\* and the report total are the sums over the entries, and the activity map
\* holds the project of every entry of the user.
C20_LegacyEntriesAccepted ==
    \A p \in Procs :
      /\ ret[p].op = "load_today_entries" =>
           /\ ret[p].raised = "no"
           /\ \A n \in DOMAIN timeDir :
                n = DailyFileName(current_user_id(p), strftime(today)) =>
                  _today_entries[p].entries = Entries(timeDir[n])
      /\ ret[p].op = "get_project_total_hours" =>
           ret[p].total_hours = HoursOfPlaces(ProjectPlaces(ret[p].project_id))
      /\ ret[p].op = "report" =>
           ret[p].total_hours
             = HoursOfPlaces(PlacesOf(DailyFilesOf(ret[p].from_date,
                                                   ret[p].to_date,
                                                   ret[p].user_filter,
                                                   current_user_id(p))))
      /\ ret[p].op = "get_all_projects" =>
           \A q \in QueryIds :
              OwnPlaces(current_user_id(p), q) # {}
                => q \in DOMAIN ret[p].user_activity

\* the part of C20 that the code keeps: the three scans accept legacy entries
C20_ScansAcceptLegacyEntries ==
    \A p \in Procs :
      /\ ret[p].op = "get_project_total_hours" =>
           ret[p].total_hours = HoursOfPlaces(ProjectPlaces(ret[p].project_id))
      /\ ret[p].op = "report" =>
           ret[p].total_hours
             = HoursOfPlaces(PlacesOf(DailyFilesOf(ret[p].from_date,
                                                   ret[p].to_date,
                                                   ret[p].user_filter,
                                                   current_user_id(p))))
      /\ ret[p].op = "get_all_projects" =>
           \A q \in QueryIds :
              OwnPlaces(current_user_id(p), q) # {}
                => /\ q \in DOMAIN ret[p].user_activity
                   /\ StrOrd(ret[p].user_activity[q]) > 0

(***************************************************************************)
(* SpecRound: one process saves projects, the team data and time entries;  *)
(* a second process of the same user, with nothing cached, loads them.     *)
(***************************************************************************)
InitRound ==
    /\ dirs = {"root", "projects", "time"}
    /\ teamFile = JsonDoc(default_team_data)
    /\ projDir = <<>> /\ timeDir = <<>> /\ starDir = <<>>
    /\ _data_folder = [p \in Procs |-> TRUE]
    /\ _current_user_id = [p \in Procs |-> Alice]
    /\ _team_data = [p \in Procs |->
                       IF p = "p1" THEN TeamData(default_team_data) ELSE None]
    /\ _projects = [p \in Procs |-> <<>>]
    /\ _today_entries = [p \in Procs |-> None]
    /\ pc = [p \in Procs |-> "idle"]
    /\ loc = [p \in Procs |-> Idle]
    /\ ret = [p \in Procs |-> Idle]
    /\ held = [p \in Procs |-> None]
    /\ InitHist
    /\ today = 1
    /\ now = 0
    /\ calls = 0

NextRound ==
    \/ \E p \in {"p1"} :
         \/ CreateProject(p)
         \/ AdminSave(p)
         \/ LogTimeWith(p, {"P1"}, LogDates)
         \/ LogTimeWrite(p)
    \/ \E p \in {"p2"} :
         \/ LoadProjects(p)
         \/ LoadTeamData(p)
         \/ LoadTodayEntries(p)

SpecRound == InitRound /\ [][NextRound]_vars

(***************************************************************************)
(* Claims about the round trip through the folder, under SpecRound.        *)
(***************************************************************************)
\* a step of the loading process: the saving process is where it was
LoadStep(op) ==
    /\ landed' = landed /\ nextId' = nextId /\ pc' = pc
    /\ ret'["p2"].op = op

\* the entries of a sequence, as a set
EntrySet(entries) == {entries[i] : i \in 1..Len(entries)}

InitIdent ==
    /\ dirs = {"root", "projects", "time"}
    /\ teamFile \in {JsonDoc([employees |-> r, work_types |-> WorkTypes]) :
                       r \in {{}, {Alice}}}
    /\ projDir = <<>> /\ timeDir = <<>> /\ starDir = <<>>
    /\ InitProcs /\ InitHist
    /\ today = 1
    /\ now = 0
    /\ calls = 0

NextIdent ==
    \E p \in Procs :
      \/ ReloadAll(p)
      \/ SetCurrentUser(p)
      \/ AdminSave(p)

SpecIdent == InitIdent /\ [][NextIdent]_vars

\* the OS account of process p is on the roster p holds after the step
OnRoster(p) ==
    /\ _team_data'[p] # None
    /\ get_os_username(p) \in _team_data'[p].employees

\* a step of reload_all by process p
ReloadStep(p) ==
    /\ ret'[p].op = "reload_all"
    /\ ret'[p] # ret[p] \/ _team_data'[p] # _team_data[p]

\* C22: when reload_all has loaded a roster without an employee whose id is
\* the OS account name, reload_all has raised nothing, current_user is absent
\* and current_user_id is the OS account name
C22_UnmatchedUserIsAbsent ==
    [][\A p \in Procs :
         (/\ ReloadStep(p)
          /\ ret'[p].configured /\ ret'[p].root
          /\ _team_data'[p] # None
          /\ ~OnRoster(p))
         => /\ ret'[p].raised = "no"
            /\ _current_user_id'[p] = NoUser
            /\ (IF _current_user_id'[p] # NoUser THEN _current_user_id'[p]
                ELSE get_os_username(p)) = get_os_username(p)]_vars

(***************************************************************************)
(* SpecMove: a process that has loaded one data folder is pointed at       *)
(* another existing folder.                                                *)
(***************************************************************************)
MoveEntry(id) == create_simple(id, "P1", "Planning", 2, "2024-01-01")

MoveTeamFiles ==
    {Absent, Corrupt, JsonDoc([employees |-> {Alice}, work_types |-> {}])}

MoveProjDirs ==
    {<<>>,
     <<"P2", ".json">> :> JsonDoc(Project([id |-> "P2", name |-> "n2"])),
     <<"P2", ".json">> :> Corrupt}

MoveTimeDirs ==
    {<<>>,
     _get_time_file_path(Alice, 1) :>
        DailyTimeFile(Alice, "2024-01-01", <<MoveEntry(2)>>),
     _get_time_file_path(Alice, 1) :> Corrupt}

\* the folders the setter may be given: a new, empty folder and folders that
\* another team has used
OtherFolders ==
    {[dirs |-> {"root"}, teamFile |-> Absent, projDir |-> <<>>,
      timeDir |-> <<>>, starDir |-> <<>>]}
    \cup {[dirs |-> {"root", "projects", "time"}, teamFile |-> t,
           projDir |-> pd, timeDir |-> td, starDir |-> <<>>] :
            t \in MoveTeamFiles, pd \in MoveProjDirs, td \in MoveTimeDirs}

InitMove ==
    /\ dirs = {"root", "projects", "time"}
    /\ teamFile = JsonDoc(default_team_data)
    /\ projDir = (<<"P1", ".json">> :>
                    JsonDoc(Project([id |-> "P1", name |-> "n1"])))
    /\ timeDir = (_get_time_file_path(Alice, 1) :>
                    DailyTimeFile(Alice, "2024-01-01", <<MoveEntry(1)>>))
    /\ starDir = <<>>
    /\ _data_folder = [p \in Procs |-> TRUE]
    /\ _current_user_id = [p \in Procs |-> NoUser]
    /\ _team_data = [p \in Procs |-> IF p = "p1"
                                     THEN TeamData(default_team_data)
                                     ELSE None]
    /\ _projects = [p \in Procs |-> IF p = "p1"
                      THEN "P1" :> Project([id |-> "P1", name |-> "n1"])
                      ELSE <<>>]
    /\ _today_entries = [p \in Procs |-> IF p = "p1"
                           THEN DailyTimeFile(Alice, "2024-01-01",
                                              <<MoveEntry(1)>>)
                           ELSE None]
    /\ pc = [p \in Procs |-> "idle"]
    /\ loc = [p \in Procs |-> Idle]
    /\ ret = [p \in Procs |-> Idle]
    /\ held = [p \in Procs |-> None]
    /\ InitHist
    /\ today = 1
    /\ now = 0
    /\ calls = 0

NextMove ==
    \E p \in {"p1"} :
      \/ SetDataFolder(p, OtherFolders)
      \/ EnsureWrite(p)
      \/ SetterReload(p)
      \/ LoadProjects(p)
      \/ LoadTodayEntries(p)
      \/ AdminSave(p)

SpecMove == InitMove /\ [][NextMove]_vars

\* the projects that decode, by id, of a projects folder
DecodableProjects(pdir) ==
    LET good == {n \in GlobJson(pdir) :
                   pdir[n].kind = "json" /\ ProjectAccepts(pdir[n].doc)}
    IN {Project(pdir[n].doc) : n \in good}

ProjectSet(cache) == {cache[id] : id \in DOMAIN cache}

\* the data_folder setter of process p has returned or raised, and nothing
\* was called since
RootChanged(p) ==
    /\ pc[p] = "idle"
    /\ loc[p].op = "data_folder"
    /\ ret[p].op = "reload_all"

\* C23: after the data root is changed to another existing folder the cached
\* projects are the projects that decode from its projects folder, and
\* neither the cached projects nor the cached entries of today are those
\* loaded from the previous root
C23_OnlyNewRootVisible ==
    \A p \in Procs :
      RootChanged(p) =>
        /\ ProjectSet(_projects[p]) = DecodableProjects(projDir)
        /\ _today_entries[p] # None
        /\ LET path == _get_time_file_path(current_user_id(p), today) IN
             IF path \notin DOMAIN timeDir
             THEN _today_entries[p].entries = <<>>
             ELSE IF timeDir[path].kind = "json"
             THEN _today_entries[p] = timeDir[path]
             ELSE _today_entries[p] # loc[p].before.today_entries
        /\ teamFile.kind = "json" => _team_data[p] = TeamData(teamFile.doc)

(***************************************************************************)
(* SpecSetup: two users point their applications at the same shared folder *)
(* and edit the roster; the steps of their setters interleave.             *)
(***************************************************************************)
InitSetup ==
    /\ dirs = {"root"}
    /\ teamFile \in {Absent,
                     JsonDoc([employees |-> {Alice}, work_types |-> {}])}
    /\ projDir = <<>> /\ timeDir = <<>> /\ starDir = <<>>
    /\ InitCaches /\ InitHist
    /\ _data_folder = [p \in Procs |-> FALSE]
    /\ today = 1
    /\ now = 0
    /\ calls = MaxCalls + 1

NextSetup ==
    \E p \in Procs :
      \/ SetDataFolder(p, {FolderNow})
      \/ EnsureWrite(p)
      \/ SetterReload(p)
      \/ AdminSave(p)

SpecSetup == InitSetup /\ [][NextSetup]_vars

\* process p takes the step of _ensure_folder_structure that follows the
\* test of line 95
EnsureStep(p) == pc[p] = "ensure_write" /\ pc'[p] = "setter_reload"

\* C24: the default team_data.json is written only when no document exists
\* at the data root, and a document that exists is left as it is
C24_ConfigurationNeverReplaced ==
    [][\A p \in Procs :
         /\ EnsureStep(p) =>
              IF teamFile = Absent
              THEN teamFile' = JsonDoc(default_team_data)
              ELSE teamFile' = teamFile
         /\ (pc[p] # pc'[p] /\ ~EnsureStep(p)) => teamFile' = teamFile]_vars

\* what holds of the code: a setter that found a document writes nothing
C24_FoundDocumentNotWritten ==
    [][\A p \in Procs :
         (pc[p] = "idle" /\ pc'[p] # "idle" /\ teamFile # Absent)
         => pc'[p] = "setter_reload" /\ teamFile' = teamFile]_vars

(***************************************************************************)
(* Claims about the set of starred projects, checked under SpecStar.       *)
(***************************************************************************)
\* the ids that the starred file `name` of the root folder gives
StarredOf(dir, name) ==
    IF StarFileAt(dir, name) = Absent THEN {}
    ELSE IF StarFileAt(dir, name).kind # "json" THEN {}
    ELSE StarFileAt(dir, name).starred

\* process p takes the writing step of set_project_starred, on a starred
\* file that is absent or reads as JSON
StarStep(p) ==
    /\ pc[p] = "star_write" /\ pc'[p] = "idle"
    /\ ret'[p].raised = "no"
    /\ StarFileAt(starDir, StarFileName(current_user_id(p))) \notin
          {Corrupt, Undecodable}

\* C25: a call set_project_starred(id, starred) by a user leaves the user's
\* set of starred ids with id in it exactly when starred is true, and with
\* every other id in it exactly when it was in it before: a repeated star
\* and an unstar of an id that is not starred change nothing
C25_StarredSetFollowsCalls ==
    [][\A p \in Procs :
         StarStep(p) =>
           LET name == StarFileName(current_user_id(p))
               before == StarredOf(starDir, name)
               after == StarredOf(starDir', name)
               id == loc[p].project_id
           IN /\ (id \in after) <=> loc[p].starred
              /\ \A other \in ProjectIds \ {id} :
                   (other \in after) <=> (other \in before)
              /\ (loc[p].starred <=> id \in before) => after = before]_vars

\* C25 witness: a call of user a has returned and a's starred file holds P1
\* and P2
C25_Witness ==
    /\ ret["p1"].op = "set_project_starred"
    /\ ret["p1"].raised = "no"
    /\ pc["p1"] = "idle"
    /\ StarFileAt(starDir, StarFileName(Alice)) =
         [kind |-> "json", starred |-> {"P1", "P2"}]

(***************************************************************************)
(* Claims about one save_project, checked under SpecIds.                   *)
(***************************************************************************)
\* the file name that the claims give a project: the external id when there
\* is one, else the legacy course id, else the internal id
FileOf(project) ==
    IF project.project_id # "" THEN <<project.project_id, ".json">>
    ELSE IF project.course_id # "" THEN <<project.course_id, ".json">>
    ELSE <<project.id, ".json">>

\* process p takes a step of save_project with a data folder set that exists
SaveStep(p) ==
    /\ ret'[p].op = "save_project"
    /\ ret'[p].configured /\ ret'[p].root
    /\ ret'[p] # ret[p] \/ landed' # landed \/ now' # now

FilesHolding(id) == {o[1] : o \in Occurrences(id)}

\* C27: starting from an empty time folder, every daily file is named
\* <u>_<d>.json for a user u and a date d, its header holds user_id = u and
\* date = d and every entry in it has date = d; an entry that is stored is
\* stored in one file only, that of the user who logged it and of its date
C27_DailyFileKeyedByUserAndDate ==
    /\ \A n \in DOMAIN timeDir :
         /\ timeDir[n].kind = "json"
         /\ \E u \in Users, d \in LogDates :
              /\ n = DailyFileName(u, DateNames[d])
              /\ timeDir[n].user_id = u
              /\ timeDir[n].date = DateNames[d]
              /\ \A i \in 1..Len(Entries(timeDir[n])) :
                   Entries(timeDir[n])[i].date = DateNames[d]
    /\ \A l \in logged :
         FilesHolding(l.entry.id) \subseteq
            {DailyFileName(l.user, l.entry.date)}

\* C27 witness: both users have logged, user a for both dates, and three
\* entries are stored in three daily files
C27_Witness ==
    /\ AllIdle
    /\ Cardinality(DOMAIN timeDir) = 3
    /\ DailyFileName(Alice, "2024-01-01") \in DOMAIN timeDir
    /\ DailyFileName(Alice, "2024-01-02") \in DOMAIN timeDir
    /\ DailyFileName(Bob, "2024-01-02") \in DOMAIN timeDir

(***************************************************************************)
(* models.py: Project.get_custom_field and set_custom_field, and           *)
(* SpecField: the custom fields of projects are read and set.              *)
(***************************************************************************)
\* the methods of Project: attributes of every instance as well
ProjectMethods ==
    {"generate_id", "get_file_id", "get_custom_field", "set_custom_field"}

\* hasattr(self, key): the fields of the dataclass and its methods
hasattr(project, key) == key \in DOMAIN project \cup ProjectMethods

\* getattr(self, key, default)
getattr(project, key, default) ==
    IF key \in DOMAIN project THEN project[key]
    ELSE IF key \in ProjectMethods THEN "<bound method>"
    ELSE default

\* Project.get_custom_field (lines 85-93)
get_custom_field(project, key, default) ==
    IF key \in DOMAIN project.custom_fields THEN project.custom_fields[key]
    ELSE IF hasattr(project, key) THEN getattr(project, key, default)
    ELSE default

\* the keys asked for: legacy fields, keys of team-defined fields, other
\* attributes of a project and a key that names nothing
FieldKeys ==
    {"campus", "lpo", "category", "name", "status", "notes", "get_file_id",
     "nothing"}
FieldValues == {"", "v1"}
FieldDefaults == {"", "dflt"}

\* a project with the fields that the form of the custom fields reads
FieldProjects ==
    {Project([id |-> "P1", name |-> "n1", campus |-> campus])
       @@ [notes |-> "", custom_fields |-> cf] :
       campus \in {"", "north"},
       cf \in {<<>>, [campus |-> "south"], [category |-> "c1"],
               [name |-> "shown"]}}

\* project_detail_screen.py, line 199: the form reads a field
GetCustomField(p) ==
    /\ Counted
    /\ pc[p] = "idle"
    /\ held[p] # None
    /\ \E key \in FieldKeys, default \in FieldDefaults :
         ret' = [ret EXCEPT ![p] =
                   [op |-> "get_custom_field", project |-> held[p],
                    key |-> key, default |-> default,
                    value |-> get_custom_field(held[p], key, default)]]
    /\ UNCHANGED <<fsVars, clockVars, cacheVars, pc, loc, held, histVars>>

\* Project.set_custom_field (lines 95-97)
SetCustomField(p) ==
    /\ Counted
    /\ pc[p] = "idle"
    /\ held[p] # None
    /\ \E key \in {"campus", "category"}, value \in FieldValues :
         held' = [held EXCEPT ![p].custom_fields = (key :> value) @@ @]
    /\ UNCHANGED <<fsVars, clockVars, cacheVars, pc, loc, ret, histVars>>

InitField ==
    /\ InitFolder /\ InitHist
    /\ _data_folder = [p \in Procs |-> TRUE]
    /\ _current_user_id = [p \in Procs |-> NoUser]
    /\ _team_data = [p \in Procs |-> None]
    /\ _projects = [p \in Procs |-> <<>>]
    /\ _today_entries = [p \in Procs |-> None]
    /\ pc = [p \in Procs |-> "idle"]
    /\ loc = [p \in Procs |-> Idle]
    /\ ret = [p \in Procs |-> Idle]
    /\ \E project \in FieldProjects :
         held = [p \in Procs |-> IF p = "p1" THEN project ELSE None]
    /\ today = 1
    /\ now = 0
    /\ calls = 0

NextField == \E p \in {"p1"} : GetCustomField(p) \/ SetCustomField(p)

SpecField == InitField /\ [][NextField]_vars

\* C28: get_custom_field(key, default) is custom_fields[key] when the mapping
\* has the key, else the legacy flat field named key when key names one, else
\* the default: never another attribute of the project
C28_CustomThenLegacyThenDefault ==
    \A p \in Procs :
      ret[p].op = "get_custom_field" =>
        LET project == ret[p].project
            key == ret[p].key
        IN ret[p].value =
             IF key \in DOMAIN project.custom_fields
             THEN project.custom_fields[key]
             ELSE IF key \in LegacyFields THEN project[key]
             ELSE ret[p].default

\* what holds of the code: the mapping first, then any attribute of the
\* project named key, then the default
C28_CustomThenAnyAttributeThenDefault ==
    \A p \in Procs :
      ret[p].op = "get_custom_field" =>
        LET project == ret[p].project
            key == ret[p].key
        IN /\ key \in DOMAIN project.custom_fields
                => ret[p].value = project.custom_fields[key]
           /\ (key \notin DOMAIN project.custom_fields
               /\ key \in LegacyFields) => ret[p].value = project[key]
           /\ key \in {"category", "nothing"} \ DOMAIN project.custom_fields
                => ret[p].value = ret[p].default

(***************************************************************************)
(* Claims about the other projects at a save, checked under SpecIds.       *)
(***************************************************************************)
\* the maps that load_projects may return for a projects folder, one for
\* each order in which glob may yield its files
LoadableMaps(pdir) ==
    {LoadProjectFiles([cache |-> <<>>, warnings |-> 0], pdir, order).cache :
       order \in Orders(GlobJson(pdir))}

\* C29: a save of a project leaves every project of another id that
\* load_projects returned before it returned by load_projects after it, with
\* the same content
C29_SaveLeavesOtherProjects ==
    [][\A p \in Procs :
         (SaveStep(p) /\ Len(landed') = Len(landed) + 1) =>
           LET saved == landed'[Len(landed')].doc IN
             \A before \in LoadableMaps(projDir) :
               \A id \in DOMAIN before \ {saved.id} :
                 \A after \in LoadableMaps(projDir') :
                   /\ id \in DOMAIN after
                   /\ after[id] = before[id]]_vars

\* what holds of the code: the files of other names are as they were
C29_SaveLeavesOtherFiles ==
    [][\A p \in Procs :
         (SaveStep(p) /\ Len(landed') = Len(landed) + 1) =>
           \A n \in DOMAIN projDir \ {landed'[Len(landed')].path} :
              n \in DOMAIN projDir' /\ projDir'[n] = projDir[n]]_vars

(***************************************************************************)
(* Claims about the cache of projects, checked under SpecRoot.             *)
(***************************************************************************)
\* get_project (lines 228-230): self._projects.get(project_id)
get_project(p, project_id) ==
    IF project_id \in DOMAIN _projects[p] THEN _projects[p][project_id]
    ELSE None

\* C30: when load_projects has returned, get_project(id) is present exactly
\* for the ids that are keys of the map it returned, also when it returned
\* the empty map for want of a data root or of the projects folder
C30_CacheAgreesWithReturnedMap ==
    \A p \in Procs :
      ret[p].op = "load_projects" =>
        \A id \in QueryIds :
          (get_project(p, id) # None) <=> id \in DOMAIN ret[p].returned

\* what holds of the code: the agreement, for the calls that reach the scan
C30_CacheAgreesAfterScan ==
    \A p \in Procs :
      (ret[p].op = "load_projects" /\ ret[p].configured /\ ret[p].root) =>
        /\ _projects[p] = ret[p].returned
        /\ \A id \in QueryIds :
             (get_project(p, id) # None) <=> id \in DOMAIN ret[p].returned

=============================================================================
